---- MODULE Spec2Model ----
(***************************************************************************)
(* A model of ezfs (src/ezfs.py): reversible byte transforms and their     *)
(* chains, the File read/write pipeline with its mode and type checks, and *)
(* the in-memory, SQLite and local-disk backends behind Filesystem.open.   *)
(*                                                                         *)
(* Bytes are naturals 0..255, byte strings and text strings are sequences  *)
(* (of bytes, of code points).  A Python value is a record [t, v]: t is    *)
(* its type ("str", "bytes", "other") and v the sequence.  A raised codec  *)
(* or decode error is the byte string ERR, which every later step passes   *)
(* on unchanged.                                                           *)
(***************************************************************************)
EXTENDS Integers, Sequences, FiniteSets, TLC

VARIABLES
    heap,           \* the Transform objects alive: id -> [cls, fn, dependent]
    chains,         \* history: the chain() calls made, [head, args] each
    call,           \* history: the last apply()/remove() call and its result
    registry,       \* __COMPRESSORS__: name -> None or a Transform object
    fsKind,         \* the concrete Filesystem class
    fsCompression,  \* Filesystem.compression
    fsTransform,    \* Filesystem.transform
    tree,           \* the backend's storage: path -> stored bytes, or Absent
    file,           \* the File of the current `with` scope
    res,            \* the last operation and what it returned or raised
    lastWrite,      \* history: the last successful write() and its pipeline
    safe_paths,     \* LocalFilesystem.safe_paths
    closes,         \* history: the _close() calls on the File of the last open
    lastChange,     \* history: the last successful remove() or rename()
    procs,          \* per thread: the call it is in the middle of, or its last result
    inits,          \* history: the runs of init_compressors()
    importable      \* the codec libraries that can be imported in this environment

vars == <<heap, chains, call, registry, fsKind, fsCompression, fsTransform,
          tree, file, res, lastWrite, safe_paths, closes, lastChange,
          procs, inits, importable>>

chainVars == <<heap, chains, call>>
confVars == <<registry, fsKind, fsCompression, fsTransform, safe_paths>>
procVars == <<procs, inits, importable>>

fsVars == <<confVars, tree, file, res, lastWrite, closes, lastChange, procVars>>

(***************************************************************************)
(* Bounds.                                                                 *)
(***************************************************************************)
\* Longest content handed to write(), apply() or remove().
MaxLen == 1
\* Most arguments of one chain() call.
MaxChain == 2
\* The most read() and write() calls on one File.
MaxOps == 2
\* The longest stored file that is still written to by a further write().
MaxSize == 2
\* The most runs of init_compressors() in one process.
MaxInits == 2

(***************************************************************************)
(* Python values.                                                          *)
(***************************************************************************)
None == [k |-> "None", s |-> "", id |-> 0]
Str(s) == [k |-> "str", s |-> s, id |-> 0]
Obj(i) == [k |-> "obj", s |-> "", id |-> i]

\* src/ezfs.py:70-71
NO_TRANSFORM == Str("none")
NO_COMPRESSION == NO_TRANSFORM

\* The default first: `b or a`.
PyOr_default_first(a, b) == IF b.k = "obj" \/ (b.k = "str" /\ b.s # "") THEN b ELSE a

\* Python truth value of None, a string or an object without __bool__.
Truthy(x) == x.k = "obj" \/ (x.k = "str" /\ x.s # "")
\* Python `a or b`.
PyOr(a, b) == IF Truthy(a) THEN a ELSE b

ERR == <<-1>>

Reverse(s) == [i \in 1..Len(s) |-> s[Len(s) + 1 - i]]
DropLast(s) == SubSeq(s, 1, Len(s) - 1)

RECURSIVE SeqsUpTo(_, _)
SeqsUpTo(S, n) ==
    IF n = 0 THEN {<<>>}
    ELSE LET shorter == SeqsUpTo(S, n - 1)
         IN shorter \cup {Append(s, x) : s \in shorter, x \in S}

(***************************************************************************)
(* Transform functions.  "tag" and "rev" are caller-supplied apply/remove  *)
(* pairs whose remove inverts their apply and which do not commute; "gzip" *)
(* is a codec module: compress adds a magic byte and a length trailer,     *)
(* decompress checks and strips them and fails on anything else.           *)
(***************************************************************************)
Compress(d) == <<31>> \o d \o <<Len(d)>>
Decompress(d) ==
    IF d = <<>> THEN <<>>
    ELSE IF Len(d) >= 2 /\ d[1] = 31 /\ d[Len(d)] = Len(d) - 2
    THEN SubSeq(d, 2, Len(d) - 1)
    ELSE ERR

\* self._apply(data)
Fwd(fn, d) ==
    IF d = ERR THEN ERR
    ELSE CASE fn = "tag" -> Append(d, 35)
           [] fn = "rev" -> Reverse(d)
           [] fn = "gzip" -> Compress(d)

\* self._remove(data)
Bwd(fn, d) ==
    IF d = ERR THEN ERR
    ELSE CASE fn = "tag" -> DropLast(d)
           [] fn = "rev" -> Reverse(d)
           [] fn = "gzip" -> Decompress(d)

(***************************************************************************)
(* Transform objects.  The heap is a sequence; an object's id is its index *)
(* and dependent = 0 is Python's None.                                     *)
(***************************************************************************)
NewTransform(fn) == [cls |-> "Transform", fn |-> fn, dependent |-> 0]
NewCompressor(fn) == [cls |-> "Compressor", fn |-> fn, dependent |-> 0]

\* Transform.apply: own forward function, then the dependent's apply.
RECURSIVE Transform_apply(_, _, _)
Transform_apply(h, t, data) ==
    LET d1 == Fwd(h[t].fn, data)
    IN IF h[t].dependent # 0 THEN Transform_apply(h, h[t].dependent, d1) ELSE d1

\* Queue discipline: own backward function first, then the dependent's remove.
RECURSIVE Remove_own_first(_, _, _)
Remove_own_first(h, t, data) ==
    LET d1 == Bwd(h[t].fn, data)
    IN IF h[t].dependent # 0 THEN Remove_own_first(h, h[t].dependent, d1) ELSE d1

\* Transform.remove: the dependent's remove, then own backward function.
RECURSIVE Transform_remove(_, _, _)
Transform_remove(h, t, data) ==
    LET d1 == IF h[t].dependent # 0 THEN Transform_remove(h, h[t].dependent, data) ELSE data
    IN Bwd(h[t].fn, d1)

\* A shallow copy, which keeps the original's _dependent.
Copy_shallow(h, t) == h[t]

\* Transform._copy / Compressor._copy: a new object of the same class with the
\* same functions; the constructor sets _dependent to None.
Transform_copy(h, t) == [cls |-> h[t].cls, fn |-> h[t].fn, dependent |-> 0]

\* Transform.chain(*transforms), len(transforms) >= 1: the heap after the call
\* and the object returned.  The copies take the ids after the last one in use;
\* every copy but the last is linked to the next.
Transform_chain(h, transforms) ==
    LET n == Len(transforms)
        base == Len(h)
        copies == [i \in 1..n |-> Transform_copy(h, transforms[i])]
        linked == [i \in 1..n |->
                     IF base + i # base + n
                     THEN [copies[i] EXCEPT !.dependent = base + i + 1]
                     ELSE copies[i]]
    IN [heap |-> h \o linked, head |-> base + 1]

(***************************************************************************)
(* The transforms a caller starts with: two plain Transforms and the       *)
(* Compressor that init_compressors registers for an importable codec.     *)
(***************************************************************************)
BaseHeap == <<NewTransform("tag"), NewTransform("rev"), NewCompressor("gzip")>>
BaseIds == 1..Len(BaseHeap)

\* The heap holds at most this many objects.
MaxObjects == Len(BaseHeap) + MaxChain + 1

\* Byte strings handed to apply() and remove().
DataInputs == SeqsUpTo({65}, MaxLen)

NoCall == [op |-> "none", t |-> 0, data |-> <<>>, out |-> <<>>, orig |-> ERR]

\* The objects a caller holds a reference to: its own, and the chains returned.
Held == BaseIds \cup {chains[i].head : i \in 1..Len(chains)}

\* Transform.chain(*transforms)
ChainCall(transforms) ==
    /\ Len(heap) + Len(transforms) <= MaxObjects
    /\ LET r == Transform_chain(heap, transforms)
       IN /\ heap' = r.heap
          /\ chains' = Append(chains, [head |-> r.head, args |-> transforms])
    /\ call' = NoCall
    /\ UNCHANGED fsVars

\* t.apply(data)
ApplyCall(t, data) ==
    /\ call' = [op |-> "apply", t |-> t, data |-> data,
                out |-> Transform_apply(heap, t, data), orig |-> ERR]
    /\ UNCHANGED <<heap, chains>>
    /\ UNCHANGED fsVars

\* t.remove(data) on fresh bytes
RemoveCall(t, data) ==
    /\ call' = [op |-> "remove", t |-> t, data |-> data,
                out |-> Transform_remove(heap, t, data), orig |-> ERR]
    /\ UNCHANGED <<heap, chains>>
    /\ UNCHANGED fsVars

\* t.remove(t.apply(x)): remove on what the last apply() of t returned
RemoveApplied ==
    /\ call.op = "apply"
    /\ call' = [op |-> "remove", t |-> call.t, data |-> call.out,
                out |-> Transform_remove(heap, call.t, call.out), orig |-> call.data]
    /\ UNCHANGED <<heap, chains>>
    /\ UNCHANGED fsVars

(***************************************************************************)
(* Text and bytes.                                                         *)
(***************************************************************************)
PyStr(v) == [t |-> "str", v |-> v]
PyBytes(v) == [t |-> "bytes", v |-> v]
PyInt(n) == [t |-> "int", v |-> <<n>>]
PyOther == [t |-> "other", v |-> <<>>]
PyNone == [t |-> "None", v |-> <<>>]
PyList(v) == [t |-> "list", v |-> v]
PyBool(b) == [t |-> "bool", v |-> <<IF b THEN 1 ELSE 0>>]
PyRaise(e) == [t |-> "raise", v |-> <<e>>]

\* str.encode("utf-8"), code points below 2048.
RECURSIVE Encode(_)
Encode(s) ==
    IF s = <<>> THEN <<>>
    ELSE LET c == Head(s)
         IN (IF c < 128 THEN <<c>> ELSE <<192 + (c \div 64), 128 + (c % 64)>>)
            \o Encode(Tail(s))

\* bytes.decode("utf-8"): ERR where Python raises UnicodeDecodeError.
RECURSIVE Decode(_)
Decode(b) ==
    IF b = <<>> THEN <<>>
    ELSE IF b = ERR THEN ERR
    ELSE IF b[1] < 128
         THEN LET r == Decode(Tail(b))
              IN IF r = ERR THEN ERR ELSE <<b[1]>> \o r
    ELSE IF b[1] >= 194 /\ b[1] <= 223 /\ Len(b) >= 2 /\ b[2] >= 128 /\ b[2] <= 191
         THEN LET r == Decode(SubSeq(b, 3, Len(b)))
              IN IF r = ERR THEN ERR ELSE <<(b[1] - 192) * 64 + (b[2] - 128)>> \o r
    ELSE ERR

\* Reading through a native text file (newline=None): "\r\n" and "\r" become "\n".
RECURSIVE UniversalNewlines(_)
UniversalNewlines(s) ==
    IF s = <<>> THEN <<>>
    ELSE IF s[1] = 13 /\ Len(s) >= 2 /\ s[2] = 10
         THEN <<10>> \o UniversalNewlines(SubSeq(s, 3, Len(s)))
    ELSE IF s[1] = 13 THEN <<10>> \o UniversalNewlines(Tail(s))
    ELSE <<s[1]>> \o UniversalNewlines(Tail(s))

(***************************************************************************)
(* Modes are sequences of one-character strings.                           *)
(***************************************************************************)
Has(mode, ch) == \E i \in 1..Len(mode) : mode[i] = ch

\* File.valid_modes
valid_modes == {"r", "w", "b", "t", "+"}

OpenOk(mode) == [status |-> "ok", msg |-> "", mode |-> mode]
OpenFail(status, msg, mode) == [status |-> status, msg |-> msg, mode |-> mode]

\* The checks with the text/binary test ahead of the read/write test.
Open_checks_text_first(mode) ==
    IF \E i \in 1..Len(mode) : mode[i] \notin valid_modes
    THEN OpenFail("ValueError", "Invalid mode", mode)
    ELSE LET m1 == IF ~Has(mode, "t") /\ ~Has(mode, "b") THEN Append(mode, "t") ELSE mode
         IN IF Has(m1, "t") /\ Has(m1, "b")
            THEN OpenFail("ValueError", "can't have text and binary mode at once", m1)
            ELSE IF Has(m1, "r") /\ Has(m1, "w")
            THEN OpenFail("ValueError", "must have exactly one of read/write mode", m1)
            ELSE OpenOk(m1)

\* File._open_checks
File_open_checks(mode) ==
    IF \E i \in 1..Len(mode) : mode[i] \notin valid_modes
    THEN OpenFail("ValueError", "Invalid mode", mode)
    ELSE LET m1 == IF ~Has(mode, "t") /\ ~Has(mode, "b") THEN Append(mode, "t") ELSE mode
         IN IF Has(m1, "r") /\ Has(m1, "w")
            THEN OpenFail("ValueError", "must have exactly one of read/write mode", m1)
            ELSE IF Has(m1, "t") /\ Has(m1, "b")
            THEN OpenFail("ValueError", "can't have text and binary mode at once", m1)
            ELSE OpenOk(m1)

\* File._read_checks
File_read_checks(mode) ==
    IF ~Has(mode, "r") THEN "UnsupportedOperation" ELSE "ok"

\* The checks with the type tests ahead of the writeable test.
Write_checks_type_first(mode, content) ==
    IF content.t \notin {"bytes", "str"} THEN "TypeError"
    ELSE IF content.t = "bytes" /\ ~Has(mode, "b") THEN "TypeError"
    ELSE IF content.t = "str" /\ ~Has(mode, "t") THEN "TypeError"
    ELSE IF ~Has(mode, "w") THEN "UnsupportedOperation"
    ELSE "ok"

\* The checks without the tests of bytes against a text mode and of str
\* against a binary mode.
Write_checks_any_mode(mode, content) ==
    IF ~Has(mode, "w") THEN "UnsupportedOperation"
    ELSE IF content.t \notin {"bytes", "str"} THEN "TypeError"
    ELSE "ok"

\* File._write_checks
File_write_checks(mode, content) ==
    IF ~Has(mode, "w") THEN "UnsupportedOperation"
    ELSE IF content.t \notin {"bytes", "str"} THEN "TypeError"
    ELSE IF content.t = "bytes" /\ ~Has(mode, "b") THEN "TypeError"
    ELSE IF content.t = "str" /\ ~Has(mode, "t") THEN "TypeError"
    ELSE "ok"

(***************************************************************************)
(* The read and write pipelines of File.                                   *)
(***************************************************************************)
\* transform.apply(content): the functions take bytes and raise on anything else.
ApplyTo(h, t, c) ==
    IF c.t = "raise" THEN c
    ELSE IF c.t # "bytes" THEN PyRaise("TypeError")
    ELSE PyBytes(Transform_apply(h, t, c.v))

\* transform.remove(data): a codec that rejects the bytes raises.
RemoveFrom(h, t, c) ==
    IF c.t = "raise" THEN c
    ELSE IF c.t # "bytes" THEN PyRaise("TypeError")
    ELSE LET r == Transform_remove(h, t, c.v)
         IN IF r = ERR THEN PyRaise("CodecError") ELSE PyBytes(r)

DecodeValue(c) ==
    LET r == Decode(c.v)
    IN IF r = ERR THEN PyRaise("UnicodeDecodeError") ELSE PyStr(r)

\* The write pipeline with compression ahead of the transform.
Write_compress_first(h, f, skip_write_encode, content) ==
    LET c1 == IF (Truthy(f.compression) \/ Truthy(f.transform)) /\ content.t = "str"
              THEN PyBytes(Encode(content.v)) ELSE content
        c2 == IF Truthy(f.compression) THEN ApplyTo(h, f.compression.id, c1) ELSE c1
        c3 == IF Truthy(f.transform) THEN ApplyTo(h, f.transform.id, c2) ELSE c2
    IN IF ~skip_write_encode /\ c3.t = "str" THEN PyBytes(Encode(c3.v)) ELSE c3

\* File.write after its checks: what is handed to _write.
File_write(h, f, skip_write_encode, content) ==
    LET c1 == IF (Truthy(f.compression) \/ Truthy(f.transform)) /\ content.t = "str"
              THEN PyBytes(Encode(content.v)) ELSE content
        c2 == IF Truthy(f.transform) THEN ApplyTo(h, f.transform.id, c1) ELSE c1
        c3 == IF Truthy(f.compression) THEN ApplyTo(h, f.compression.id, c2) ELSE c2
    IN IF ~skip_write_encode /\ c3.t = "str" THEN PyBytes(Encode(c3.v)) ELSE c3

\* File.read after _read returned data.
File_read(h, f, data) ==
    LET d1 == IF Truthy(f.compression) THEN RemoveFrom(h, f.compression.id, data) ELSE data
        d2 == IF Truthy(f.transform) THEN RemoveFrom(h, f.transform.id, d1) ELSE d1
    IN IF d2.t = "bytes" /\ Has(f.mode, "t") THEN DecodeValue(d2) ELSE d2

(***************************************************************************)
(* Paths are sequences of one-character strings (os.path on POSIX).        *)
(***************************************************************************)
\* path.lstrip(os.path.sep)
RECURSIVE LStrip(_)
LStrip(s) == IF s # <<>> /\ s[1] = "/" THEN LStrip(Tail(s)) ELSE s

StartsWith(s, prefix) ==
    Len(s) >= Len(prefix) /\ SubSeq(s, 1, Len(prefix)) = prefix

\* os.path.join(a, b)
Join(a, b) ==
    IF b # <<>> /\ b[1] = "/" THEN b
    ELSE IF a = <<>> \/ a[Len(a)] = "/" THEN a \o b
    ELSE a \o <<"/">> \o b

\* s.split("/")
RECURSIVE Split(_, _)
Split(s, part) ==
    IF s = <<>> THEN <<part>>
    ELSE IF s[1] = "/" THEN <<part>> \o Split(Tail(s), <<>>)
    ELSE Split(Tail(s), Append(part, s[1]))

\* The component loop of os.path.normpath for an absolute path.
RECURSIVE NormParts(_, _)
NormParts(parts, done) ==
    IF parts = <<>> THEN done
    ELSE LET c == parts[1]
         IN IF c = <<>> \/ c = <<".">> THEN NormParts(Tail(parts), done)
            ELSE IF c = <<".", ".">>
            THEN NormParts(Tail(parts), IF done = <<>> THEN done ELSE DropLast(done))
            ELSE NormParts(Tail(parts), Append(done, c))

RECURSIVE JoinParts(_)
JoinParts(parts) ==
    IF parts = <<>> THEN <<>> ELSE <<"/">> \o parts[1] \o JoinParts(Tail(parts))

\* os.path.abspath(path) in the working directory cwd.
Abspath(cwd, path) ==
    LET parts == NormParts(Split(Join(cwd, path), <<>>), <<>>)
    IN IF parts = <<>> THEN <<"/">> ELSE JoinParts(parts)

\* The process's working directory, and LocalFilesystem.directory (already
\* absolute): the root "/r" has the sibling "/r2".
Cwd == <<"/", "c">>
directory == Abspath(Cwd, <<"/", "r">>)

\* os.path.abspath(os.path.join(self.directory, path.lstrip(os.path.sep)))
FinalPath(path) == Abspath(Cwd, Join(directory, LStrip(path)))

\* Every key of the storage that an operation on the paths P can name: the
\* path itself (MemFilesystem.tree, the SQLite table), the file under the
\* root and the file under the working directory (local disk).
Keys(P) == P \cup {FinalPath(p) : p \in P} \cup {Abspath(Cwd, p) : p \in P}

(***************************************************************************)
(* The filesystem, its storage and the File of the current scope.          *)
(***************************************************************************)
Backends == {"mem", "sqlite", "local"}
Paths == {<<"a">>}

\* The paths given to the filesystem operations: a plain name, a path that
\* climbs out of the root and one that climbs into the root's sibling "/r2".
FsPaths == { <<"a">>, <<".", ".", "/", "a">>, <<".", ".", "/", "r", "2", "/", "a">> }

\* The directory a dir_fd argument is open to.
FdDir == directory

\* For each path: the path _validate and LocalFilesystem.open compute, and the
\* path the operating system resolves it to from the working directory and
\* from the dir_fd directory.
Resolve ==
    [p \in Paths \cup FsPaths |->
        [final |-> FinalPath(p), cwd |-> Abspath(Cwd, p), fd |-> Abspath(FdDir, p),
         inside |-> StartsWith(FinalPath(p), directory)]]

Absent == [here |-> FALSE, data |-> <<>>]
Stored(d) == [here |-> TRUE, data |-> d]

\* A tag -> rev chain built by Transform.chain from the caller's transforms.
PoolChain == Transform_chain(BaseHeap, <<1, 2>>)

Strings == SeqsUpTo({65, 233, 13}, MaxLen)
ByteStrings == SeqsUpTo({65, 195}, MaxLen)
Contents == {PyStr(v) : v \in Strings} \cup {PyBytes(v) : v \in ByteStrings} \cup {PyOther}

ModeInputs ==
    { <<>>, <<"r">>, <<"w">>, <<"b">>, <<"u">>,
      <<"r", "b">>, <<"w", "b">>, <<"r", "t">>, <<"w", "t">>,
      <<"r", "w">>, <<"t", "b">>, <<"w", "+">>,
      <<"u", "r", "w">>, <<"r", "w", "t", "b">> }

\* The per-call overrides of Filesystem.open; "zstd" is a codec whose library
\* is not installed, so init_compressors did not register it.
CompressionInputs == {None, NO_COMPRESSION, Str("gzip"), Str("zstd")}
TransformInputs == {None, NO_TRANSFORM, Obj(PoolChain.head)}

\* The defaults a Filesystem is constructed with.
Defaults == {[compression |-> NO_COMPRESSION, transform |-> None],
             [compression |-> Str("gzip"), transform |-> Obj(1)]}

NoFile == [state |-> "none", path |-> <<>>, mode |-> <<>>, compression |-> None,
           transform |-> None, native |-> <<>>, ops |-> 0, pos |-> 0,
           read |-> FALSE, wrote |-> FALSE]

NoRes == [op |-> "none", status |-> "ok", msg |-> "",
          arg |-> PyNone, raw |-> PyNone, value |-> PyNone,
          path |-> <<>>, dst |-> <<>>, fd |-> FALSE,
          compression |-> None, transform |-> None]

Raised(op, status, msg) == [NoRes EXCEPT !.op = op, !.status = status, !.msg = msg]

\* The mode string an open() was called with.
PyMode(mode) == [t |-> "mode", v |-> mode]

NoWrite == [path |-> <<>>, content |-> PyNone, compression |-> None, transform |-> None]

\* No remove() or rename() to remember; `at` and `to` are the locations of
\* the storage that src and dst named.
NoChange == [op |-> "none", src |-> <<>>, dst |-> <<>>, at |-> <<>>, to |-> <<>>,
             content |-> <<>>]

\* The threads of the process, and what a thread is in the middle of.
Threads == {1, 2}
NoProc == [pc |-> "idle", op |-> "none", src |-> <<>>, dst |-> <<>>, status |-> "ok"]
Idle == [t \in Threads |-> NoProc]

\* The empty dict __COMPRESSORS__ starts as.
NoRegistry == [n \in {} |-> None]

\* The key None of the registry (not a string).
NoneKey == "<None>"

\* The candidate codecs, in the order init_compressors probes them.
Libs == <<"bz2", "gzip", "lzma", "blosc", "brotli", "lz4", "snappy", "zstd">>
LibSet == {Libs[i] : i \in 1..Len(Libs)}

\* Compressor(mod), or the Transform built for zstd: every codec is the
\* Compressor object of the heap.
Codec(name) == Obj(3)

\* dict.update / dict.__setitem__
SetItem(reg, key, value) ==
    [k \in DOMAIN reg \cup {key} |-> IF k = key THEN value ELSE reg[k]]

\* The loop over libs: an importable codec is registered, an ImportError is
\* passed over.
RECURSIVE ProbeLibs(_, _, _)
ProbeLibs(reg, avail, i) ==
    IF i > Len(Libs) THEN reg
    ELSE ProbeLibs(IF Libs[i] \in avail THEN SetItem(reg, Libs[i], Codec(Libs[i])) ELSE reg,
                   avail, i + 1)

\* A population that leaves out the "none" sentinel.
Init_without_none(reg, avail) == ProbeLibs(SetItem(reg, NoneKey, None), avail, 1)

\* init_compressors(): the registry it leaves.
Init_compressors(reg, avail) ==
    ProbeLibs(SetItem(SetItem(reg, NoneKey, None), "none", None), avail, 1)

\* str(key).lower()
Lower(key) ==
    IF key = NoneKey THEN "none"
    ELSE IF key = "GZIP" THEN "gzip"
    ELSE key

\* The names in the order sorted() gives them.
Alphabet == <<"blosc", "brotli", "bz2", "gzip", "lz4", "lzma", "none", "snappy", "zstd">>
Sorted(S) == SelectSeq(Alphabet, LAMBDA n : n \in S)

\* init_compressors(): the list it returns.
Names(reg) == Sorted({Lower(k) : k \in DOMAIN reg})

\* The registry as init_compressors leaves it on a system where gzip is the
\* one codec that can be imported.
Registry0 == Init_compressors(NoRegistry, {"gzip"})

\* A File whose compression name is resolved in the registry as it was when
\* the Filesystem was constructed.
File_init_snapshot(path, mode, compression, transform) ==
    [NoFile EXCEPT !.path = path, !.mode = mode,
                   !.compression = IF compression.k # "str" THEN compression
                                   ELSE IF compression.s \in DOMAIN Registry0
                                   THEN Registry0[compression.s] ELSE None,
                   !.transform = IF transform # NO_TRANSFORM THEN transform ELSE None]

\* File.__init__: a compression given by name is looked up in the registry.
File_init(path, mode, compression, transform) ==
    [NoFile EXCEPT !.path = path, !.mode = mode,
                   !.compression = IF compression.k = "str" THEN registry[compression.s]
                                   ELSE compression,
                   !.transform = IF transform # NO_TRANSFORM THEN transform ELSE None]

(***************************************************************************)
(* The native file behind a LocalFile (builtin open).                      *)
(***************************************************************************)
\* LocalFile._open: the mode handed to the native open.
LocalFile_mode(f) ==
    LET m1 == IF ~Has(f.mode, "t") /\ ~Has(f.mode, "b") THEN Append(f.mode, "t") ELSE f.mode
    IN IF Truthy(f.compression) \/ Truthy(f.transform)
       THEN [i \in 1..Len(m1) |-> IF m1[i] = "t" THEN "b" ELSE m1[i]]
       ELSE m1

\* The modes builtin open accepts.
NativeModeOk(m) ==
    /\ \A i \in 1..Len(m) : m[i] \in {"r", "w", "x", "a", "b", "t", "+"}
    /\ \A i, j \in 1..Len(m) : i # j => m[i] # m[j]
    /\ ~(Has(m, "t") /\ Has(m, "b"))
    /\ Cardinality({ch \in {"r", "w", "x", "a"} : Has(m, ch)}) = 1

Readable(m) == Has(m, "r") \/ Has(m, "+")
Writable(m) == Has(m, "w") \/ Has(m, "+")

\* file.read() of a native file: the file from the handle's position on.
NativeRead(m, stored, pos) ==
    LET rest == SubSeq(stored, pos + 1, Len(stored))
    IN IF ~Readable(m) THEN PyRaise("UnsupportedOperation")
       ELSE IF Has(m, "b") THEN PyBytes(rest)
       ELSE LET r == Decode(rest)
            IN IF r = ERR THEN PyRaise("UnicodeDecodeError")
               ELSE PyStr(UniversalNewlines(r))

\* file.write(data) of the native file: the bytes to put into the file and
\* the count returned (characters for a text file, bytes for a binary one).
NativeWrite(m, c) ==
    IF Has(m, "b")
    THEN IF ~Writable(m) THEN [status |-> "UnsupportedOperation", bytes |-> <<>>, count |-> 0]
         ELSE IF c.t # "bytes" THEN [status |-> "TypeError", bytes |-> <<>>, count |-> 0]
         ELSE [status |-> "ok", bytes |-> c.v, count |-> Len(c.v)]
    ELSE IF c.t # "str" THEN [status |-> "TypeError", bytes |-> <<>>, count |-> 0]
         ELSE IF ~Writable(m) THEN [status |-> "UnsupportedOperation", bytes |-> <<>>, count |-> 0]
         ELSE [status |-> "ok", bytes |-> Encode(c.v), count |-> Len(c.v)]

\* Bytes written at the handle's position replace what was there and extend
\* the file.
Overwrite(stored, pos, bytes) ==
    SubSeq(stored, 1, pos) \o bytes \o SubSeq(stored, pos + Len(bytes) + 1, Len(stored))

(***************************************************************************)
(* Filesystem.open: File.__init__, then __enter__ and _open.               *)
(***************************************************************************)
\* The outcome of an open() call, with the arguments it was called with.
OpenArgs(path, mode, compression, transform) ==
    [path |-> path, mode |-> mode, compression |-> compression, transform |-> transform]

OpenRes(r, args) ==
    [r EXCEPT !.op = "open", !.arg = PyMode(args.mode), !.path = args.path,
              !.compression = args.compression, !.transform = args.transform]

\* An open() that raised: no File, the error and the mode and path it is about.
OpenRaised(status, msg, args) ==
    [Raised("open", status, msg) EXCEPT !.arg = PyMode(args.mode), !.path = args.path]

\* File._open of the backends that keep the generic checks.
File_open(f0, args) ==
    LET chk == File_open_checks(f0.mode)
    IN /\ file' = IF chk.status = "ok"
                  THEN [f0 EXCEPT !.state = "open", !.mode = chk.mode]
                  ELSE NoFile
       /\ res' = IF chk.status = "ok" THEN OpenRes(NoRes, args)
                 ELSE OpenRaised(chk.status, chk.msg, args)
       /\ tree' = tree

\* LocalFile._open: no generic checks; the native open validates the mode,
\* needs the file to exist for "r" and creates or truncates it for "w".
LocalFile_open(f0, args) ==
    LET m == LocalFile_mode(f0)
    IN IF ~NativeModeOk(m)
       THEN /\ file' = NoFile
            /\ res' = OpenRaised("ValueError", "native", args)
            /\ tree' = tree
       ELSE IF Has(m, "r") /\ ~tree[f0.path].here
       THEN /\ file' = NoFile
            /\ res' = OpenRaised("FileNotFoundError", "native", args)
            /\ tree' = tree
       ELSE /\ file' = [f0 EXCEPT !.state = "open", !.native = m]
            /\ res' = OpenRes(NoRes, args)
            /\ tree' = IF Has(m, "w") THEN [tree EXCEPT ![f0.path] = Stored(<<>>)] ELSE tree

\* Filesystem.open / LocalFilesystem.open: the local filesystem resolves the
\* path under its directory first and refuses one that does not start with it.
Open(path, mode, compression, transform) ==
    /\ file.state # "open"
    /\ LET c == PyOr(compression, fsCompression)
           t == PyOr(transform, fsTransform)
           final == IF fsKind = "local" THEN Resolve[path].final ELSE path
           args == OpenArgs(path, mode, compression, transform)
       IN IF fsKind = "local" /\ safe_paths /\ ~Resolve[path].inside
          THEN /\ file' = NoFile
               /\ res' = OpenRaised("FileNotFoundError", "escape", args)
               /\ tree' = tree
          ELSE IF c.k = "str" /\ c.s \notin DOMAIN registry
          THEN /\ file' = NoFile
               /\ res' = OpenRaised("KeyError", c.s, args)
               /\ tree' = tree
          ELSE IF fsKind = "local"
               THEN LocalFile_open(File_init(final, mode, c, t), args)
               ELSE File_open(File_init(final, mode, c, t), args)
    /\ lastWrite' = IF tree' # tree THEN NoWrite ELSE lastWrite
    /\ lastChange' = IF tree' # tree THEN NoChange ELSE lastChange
    /\ closes' = 0
    /\ UNCHANGED <<chainVars, procVars, confVars>>

(***************************************************************************)
(* File.read                                                               *)
(***************************************************************************)
\* _read_checks of the File class in use.
ReadChecks(kind, f, entry) ==
    CASE kind = "mem" -> IF Has(f.mode, "r") /\ ~entry.here THEN "FileNotFoundError"
                         ELSE File_read_checks(f.mode)
      [] kind = "sqlite" -> File_read_checks(f.mode)
      [] kind = "local" -> "ok"

\* _read of the File class in use.
RawRead(kind, f, entry) ==
    CASE kind = "mem" -> IF entry.here THEN PyBytes(entry.data) ELSE PyNone
      [] kind = "sqlite" -> IF entry.here THEN PyBytes(entry.data)
                            ELSE PyRaise("FileNotFoundError")
      [] kind = "local" -> NativeRead(f.native, entry.data, f.pos)

\* File.read on the open File; a native file is left positioned at its end.
ReadStep ==
    /\ LET entry == tree[file.path]
           chk == ReadChecks(fsKind, file, entry)
           raw == RawRead(fsKind, file, entry)
           val == File_read(heap, file, raw)
           ok == chk = "ok" /\ val.t # "raise"
       IN /\ res' = IF chk # "ok" THEN Raised("read", chk, "")
                    ELSE IF val.t = "raise" THEN Raised("read", val.v[1], "")
                    ELSE [NoRes EXCEPT !.op = "read", !.raw = raw, !.value = val]
          /\ file' = [file EXCEPT !.ops = @ + 1,
                                  !.read = @ \/ ok,
                                  !.pos = IF fsKind = "local" /\ raw.t # "raise"
                                          THEN Len(entry.data) ELSE @]
    /\ UNCHANGED <<chainVars, procVars, confVars, tree, lastWrite, closes, lastChange>>

\* The first operation of a scope is a read.
Read ==
    /\ file.state = "open"
    /\ file.ops = 0
    /\ ReadStep

(***************************************************************************)
(* File.write                                                              *)
(***************************************************************************)
WriteOk(content, data, count) ==
    [NoRes EXCEPT !.op = "write", !.arg = content, !.raw = data, !.value = PyInt(count)]

WriteRaised(status, content) ==
    [Raised("write", status, "") EXCEPT !.arg = [t |-> content.t, v |-> <<>>]]

Remember(content) ==
    [path |-> file.path, content |-> content,
     compression |-> file.compression, transform |-> file.transform]

\* A raw write that adds the data to what the entry holds.
Write_append(tr, at, data) == [tr EXCEPT ![at] = Stored(tr[at].data \o data)]

\* MemFile._write: tree[file] = data; SQLiteFile._write: INSERT ... ON
\* CONFLICT(file) DO UPDATE SET content = data.
Raw_write(tr, at, data) == [tr EXCEPT ![at] = Stored(data)]

\* MemFile._write, SQLiteFile._write: the entry is replaced, len(data) returned.
\* The result notes whether other content was stored before.
GenericWrite(content) ==
    LET chk == File_write_checks(file.mode, content)
        data == File_write(heap, file, FALSE, content)
    IN IF chk # "ok"
       THEN /\ res' = WriteRaised(chk, content)
            /\ file' = [file EXCEPT !.ops = @ + 1]
            /\ UNCHANGED <<tree, lastWrite, lastChange>>
       ELSE IF data.t = "raise"
       THEN /\ res' = WriteRaised(data.v[1], content)
            /\ file' = [file EXCEPT !.ops = @ + 1]
            /\ UNCHANGED <<tree, lastWrite, lastChange>>
       ELSE /\ tree' = Raw_write(tree, file.path, data.v)
            /\ res' = [WriteOk(content, data, Len(data.v)) EXCEPT
                          !.msg = IF tree[file.path].here /\ tree[file.path].data # data.v
                                  THEN "replaced" ELSE ""]
            /\ file' = [file EXCEPT !.ops = @ + 1, !.wrote = TRUE]
            /\ lastWrite' = Remember(content)
            /\ lastChange' = NoChange

\* LocalFile._write: no checks of its own, the native write decides; the
\* bytes go to the handle's position, which moves behind them.
LocalWrite(content) ==
    LET data == File_write(heap, file, TRUE, content)
        w == NativeWrite(file.native, data)
        new == Overwrite(tree[file.path].data, file.pos, w.bytes)
    IN IF data.t = "raise"
       THEN /\ res' = WriteRaised(data.v[1], content)
            /\ file' = [file EXCEPT !.ops = @ + 1]
            /\ UNCHANGED <<tree, lastWrite, lastChange>>
       ELSE IF w.status # "ok"
       THEN /\ res' = WriteRaised(w.status, content)
            /\ file' = [file EXCEPT !.ops = @ + 1]
            /\ UNCHANGED <<tree, lastWrite, lastChange>>
       ELSE /\ tree' = [tree EXCEPT ![file.path] = Stored(new)]
            /\ res' = WriteOk(content, data, w.count)
            /\ file' = [file EXCEPT !.ops = @ + 1, !.wrote = TRUE,
                                    !.pos = @ + Len(w.bytes)]
            /\ lastWrite' = Remember(content)
            /\ lastChange' = NoChange

\* File.write on the open File.
WriteStep(content) ==
    /\ IF fsKind = "local" THEN LocalWrite(content) ELSE GenericWrite(content)
    /\ UNCHANGED <<chainVars, procVars, confVars, closes>>

\* The first operation of a scope is a write.
Write(content) ==
    /\ file.state = "open"
    /\ file.ops = 0
    /\ WriteStep(content)

\* A further read() on the open File.
ReadNext ==
    /\ file.state = "open"
    /\ file.ops < MaxOps
    /\ ReadStep

\* A further write() on the open File (an update mode of the native open
\* appends to what is stored, so the size is capped).
WriteNext(content) ==
    /\ file.state = "open"
    /\ file.ops < MaxOps
    /\ Len(tree[file.path].data) < MaxSize
    /\ WriteStep(content)

\* File.__exit__ -> _close, the body having returned
Close ==
    /\ file.state = "open"
    /\ file' = [NoFile EXCEPT !.state = "closed"]
    /\ res' = [NoRes EXCEPT !.op = "close"]
    /\ closes' = closes + 1
    /\ UNCHANGED <<chainVars, procVars, confVars, tree, lastWrite, lastChange>>

\* The errors that can leave the body of the scope: one of the caller's own,
\* or the one the last read() or write() raised.
BodyErrors ==
    {"RuntimeError"} \cup (IF res.op \in {"read", "write"} /\ res.status # "ok"
                            THEN {res.status} ELSE {})

\* File.__exit__ returns None: the error in flight is not suppressed.
File_exit(e) == FALSE

\* What the caller of the `with` statement sees, given __exit__'s return.
Propagated(e) == IF File_exit(e) THEN "ok" ELSE e

\* A scope exit that propagates the error without reaching _close.
Raise_without_close(e) ==
    /\ file.state = "open"
    /\ file' = [NoFile EXCEPT !.state = "closed"]
    /\ res' = [Raised("exit", Propagated(e), e) EXCEPT !.path = file.path]
    /\ closes' = closes
    /\ UNCHANGED <<chainVars, procVars, confVars, tree, lastWrite, lastChange>>

\* The body raises e: the generator of Filesystem.open is resumed with it at
\* its yield, the inner `with` calls File.__exit__ -> _close and re-raises.
Raise(e) ==
    /\ file.state = "open"
    /\ file' = [NoFile EXCEPT !.state = "closed"]
    /\ res' = [Raised("exit", Propagated(e), e) EXCEPT !.path = file.path]
    /\ closes' = closes + 1
    /\ UNCHANGED <<chainVars, procVars, confVars, tree, lastWrite, lastChange>>

(***************************************************************************)
(* A File that its caller keeps after the scope has ended.                 *)
(***************************************************************************)
\* File.__exit__ -> _close, the caller holding on to the File object.
Exit ==
    /\ file.state = "open"
    /\ file' = [file EXCEPT !.state = "closed"]
    /\ res' = [NoRes EXCEPT !.op = "close"]
    /\ closes' = closes + 1
    /\ UNCHANGED <<chainVars, procVars, confVars, tree, lastWrite, lastChange>>

\* The File object is in the caller's hands and its scope has ended.
Stale == file.state = "closed" /\ file.path # <<>>

\* read() of a closed native file.
NativeClosedRead(m) ==
    IF Has(m, "b") /\ ~Readable(m) THEN "UnsupportedOperation" ELSE "ValueError"

\* write(data) of a closed native file.
NativeClosedWrite(m, c) ==
    IF Has(m, "b")
    THEN IF ~Writable(m) THEN "UnsupportedOperation"
         ELSE IF c.t # "bytes" THEN "TypeError" ELSE "ValueError"
    ELSE IF c.t # "str" THEN "TypeError" ELSE "ValueError"

\* File.read on the File after its scope: File keeps no record of being
\* closed, so MemFile and SQLiteFile read as before; LocalFile._read reaches
\* the closed native file.
StaleRead ==
    /\ Stale
    /\ file.ops < MaxOps
    /\ IF fsKind = "local"
       THEN /\ res' = Raised("read", NativeClosedRead(file.native), "")
            /\ file' = [file EXCEPT !.ops = @ + 1]
            /\ UNCHANGED <<chainVars, procVars, confVars, tree, lastWrite, closes, lastChange>>
       ELSE ReadStep

\* File.write on the File after its scope.
StaleWrite(content) ==
    /\ Stale
    /\ file.ops < MaxOps
    /\ IF fsKind = "local"
       THEN LET data == File_write(heap, file, TRUE, content)
            IN /\ res' = IF data.t = "raise" THEN WriteRaised(data.v[1], content)
                         ELSE WriteRaised(NativeClosedWrite(file.native, data), content)
               /\ file' = [file EXCEPT !.ops = @ + 1]
               /\ UNCHANGED <<chainVars, procVars, confVars, tree, lastWrite, closes, lastChange>>
       ELSE WriteStep(content)

\* `with f:` on the File after its scope: File.__enter__ -> _open once more.
Reenter ==
    /\ Stale
    /\ IF fsKind = "local"
       THEN IF Has(file.native, "r") /\ ~tree[file.path].here
            THEN /\ file' = file
                 /\ res' = Raised("enter", "FileNotFoundError", "native")
                 /\ tree' = tree
            ELSE /\ file' = [file EXCEPT !.state = "open", !.pos = 0]
                 /\ res' = [NoRes EXCEPT !.op = "enter"]
                 /\ tree' = IF Has(file.native, "w")
                            THEN [tree EXCEPT ![file.path] = Stored(<<>>)] ELSE tree
       ELSE LET chk == File_open_checks(file.mode)
            IN /\ file' = IF chk.status = "ok"
                          THEN [file EXCEPT !.state = "open", !.mode = chk.mode] ELSE file
               /\ res' = IF chk.status = "ok" THEN [NoRes EXCEPT !.op = "enter"]
                         ELSE Raised("enter", chk.status, chk.msg)
               /\ tree' = tree
    /\ lastWrite' = IF tree' # tree THEN NoWrite ELSE lastWrite
    /\ lastChange' = IF tree' # tree THEN NoChange ELSE lastChange
    /\ closes' = 0
    /\ UNCHANGED <<chainVars, procVars, confVars>>

(***************************************************************************)
(* The registry and the construction of a Filesystem.                      *)
(***************************************************************************)
\* __COMPRESSORS__[name] = entry
Register(name, entry) ==
    /\ registry' = [n \in DOMAIN registry \cup {name} |->
                        IF n = name THEN entry ELSE registry[n]]
    /\ res' = [NoRes EXCEPT !.op = "register", !.msg = name]
    /\ UNCHANGED <<chainVars, procVars, fsKind, fsCompression, fsTransform, safe_paths,
                   tree, file, lastWrite, closes, lastChange>>

\* init_compressors() called by the program.
InitCall ==
    /\ inits < MaxInits
    /\ registry' = Init_compressors(registry, importable)
    /\ inits' = inits + 1
    /\ res' = [NoRes EXCEPT !.op = "init", !.value = PyList(Names(registry'))]
    /\ UNCHANGED <<chainVars, fsKind, fsCompression, fsTransform, safe_paths,
                   tree, file, lastWrite, closes, lastChange, procs, importable>>

\* Filesystem.__init__: an empty registry is populated first, then the
\* defaults are stored as given.  A new MemFilesystem
\* or SQLiteFilesystem starts empty, a new LocalFilesystem on the same
\* directory finds the files that are there.
Construct(compression, transform) ==
    /\ file.state # "open"
    /\ registry' = IF DOMAIN registry = {} THEN Init_compressors(registry, importable)
                   ELSE registry
    /\ inits' = IF DOMAIN registry = {} THEN inits + 1 ELSE inits
    /\ fsCompression' = compression
    /\ fsTransform' = transform
    /\ tree' = IF fsKind = "local" THEN tree ELSE [k \in DOMAIN tree |-> Absent]
    /\ file' = NoFile
    /\ res' = [NoRes EXCEPT !.op = "construct"]
    /\ lastWrite' = IF tree' # tree THEN NoWrite ELSE lastWrite
    /\ lastChange' = IF tree' # tree THEN NoChange ELSE lastChange
    /\ closes' = 0
    /\ UNCHANGED <<chainVars, fsKind, safe_paths, procs, importable>>

(***************************************************************************)
(* S3BotoFilesystem and S3BotoFile over a client whose calls can fail.     *)
(***************************************************************************)
\* botocore's ClientError with response["Error"]["Code"] = code.
ClientError(code) == [t |-> "raise", v |-> <<"ClientError", code>>]

IsClientError(r) == r.t = "raise" /\ r.v[1] = "ClientError"

\* What the service does with a call besides looking the key up.
S3Faults == {"none", "AccessDenied", "InternalError"}

\* The error code of a HEAD response is its HTTP status.
HeadCode(fault) == IF fault = "AccessDenied" THEN "403" ELSE "500"

\* client.get_object(Bucket, Key) followed by Body.read()
Get_object(tr, key, fault) ==
    IF fault # "none" THEN ClientError(fault)
    ELSE IF tr[key].here THEN PyBytes(tr[key].data)
    ELSE ClientError("NoSuchKey")

\* client.head_object(Bucket, Key)
Head_object(tr, key, fault) ==
    IF fault # "none" THEN ClientError(HeadCode(fault))
    ELSE IF tr[key].here THEN PyNone
    ELSE ClientError("404")

\* S3BotoFile._read: a missing key becomes FileNotFoundError, any other
\* ClientError is raised again as it is.
S3BotoFile_read(response) ==
    IF IsClientError(response)
    THEN IF response.v[2] = "NoSuchKey" THEN PyRaise("FileNotFoundError") ELSE response
    ELSE response

\* An isfile that answers False to every ClientError.
S3_isfile_lenient(response) ==
    IF IsClientError(response) THEN PyBool(FALSE) ELSE PyBool(TRUE)

\* S3BotoFilesystem.isfile: "404" is False, any other ClientError is raised.
S3BotoFilesystem_isfile(response) ==
    IF IsClientError(response)
    THEN IF response.v[2] # "404" THEN response ELSE PyBool(FALSE)
    ELSE PyBool(TRUE)

\* The result of a call that returned or raised `out`; the client's response
\* is kept next to it.
S3Result(op, path, response, out) ==
    [NoRes EXCEPT !.op = op, !.path = path, !.raw = response,
                  !.status = IF out.t = "raise" THEN out.v[1] ELSE "ok",
                  !.msg = IF out.t = "raise" /\ Len(out.v) > 1 THEN out.v[2] ELSE "",
                  !.value = IF out.t = "raise" THEN PyNone ELSE out]

\* File.read on an open S3BotoFile.
S3Read(fault) ==
    /\ fsKind = "s3"
    /\ file.state = "open"
    /\ file.ops = 0
    /\ LET chk == File_read_checks(file.mode)
           response == Get_object(tree, file.path, fault)
           val == File_read(heap, file, S3BotoFile_read(response))
       IN /\ res' = IF chk # "ok" THEN Raised("read", chk, "")
                    ELSE S3Result("read", file.path, response, val)
          /\ file' = [file EXCEPT !.ops = @ + 1, !.read = @ \/ (chk = "ok" /\ val.t # "raise")]
    /\ UNCHANGED <<chainVars, procVars, confVars, tree, lastWrite, closes, lastChange>>

\* fs.isfile(path) on an S3BotoFilesystem.
S3Isfile(path, fault) ==
    /\ fsKind = "s3"
    /\ file.state # "open"
    /\ LET response == Head_object(tree, path, fault)
       IN res' = S3Result("isfile", path, response, S3BotoFilesystem_isfile(response))
    /\ UNCHANGED <<chainVars, procVars, confVars, tree, file, lastWrite, closes, lastChange>>

(***************************************************************************)
(* SQLiteFilesystem.__init__ and its identifiers (strings of code points). *)
(***************************************************************************)
\* The character class [A-za-z0-9_] as written: the range A-z runs from 65 to
\* 122 and so holds the six characters between "Z" and "a" as well.
InClass(c) == (c >= 65 /\ c <= 122) \/ (c >= 48 /\ c <= 57) \/ c = 95

\* re.match(r"^[A-za-z0-9_]+$", value): `$` also matches before a newline
\* that ends the string.
ReMatch(value) ==
    LET body == IF value # <<>> /\ value[Len(value)] = 10 THEN DropLast(value) ELSE value
    IN body # <<>> /\ \A i \in 1..Len(body) : InClass(body[i])

\* An identifier as SQLite reads it in a statement: white space around it
\* does not count.
Stripped(value) == SelectSeq(value, LAMBDA c : c # 10 /\ c # 32)

\* CREATE TABLE t(f TEXT(255) PRIMARY KEY, c BLOB) is accepted: no stray
\* token, two different columns.
CreateTableRuns(table_name, file_col, content_col) ==
    /\ \A v \in {table_name, file_col, content_col} : \A i \in 1..Len(v) : v[i] # 91
    /\ Stripped(file_col) # Stripped(content_col)

\* SQLiteFilesystem.__init__: the names are validated in turn, then the
\* connection is opened, the statements are built and, for ":memory:", the
\* table is created.
SQLiteFilesystem_init(table_name, file_col, content_col) ==
    IF ~ReMatch(table_name) THEN [status |-> "ValueError", msg |-> "table_name", connected |-> FALSE]
    ELSE IF ~ReMatch(file_col) THEN [status |-> "ValueError", msg |-> "file_col", connected |-> FALSE]
    ELSE IF ~ReMatch(content_col) THEN [status |-> "ValueError", msg |-> "content_col", connected |-> FALSE]
    ELSE IF ~CreateTableRuns(table_name, file_col, content_col)
    THEN [status |-> "OperationalError", msg |-> "", connected |-> TRUE]
    ELSE [status |-> "ok", msg |-> "", connected |-> TRUE]

\* SQLiteFilesystem(":memory:", table_name, file_col, content_col): a
\* construction that succeeds gives a new, empty filesystem.
SqliteConstruct(table_name, file_col, content_col) ==
    /\ file.state # "open"
    /\ LET o == SQLiteFilesystem_init(table_name, file_col, content_col)
           populate == o.connected /\ DOMAIN registry = {}
       IN /\ res' = [NoRes EXCEPT !.op = "sqlite", !.status = o.status, !.msg = o.msg,
                                  !.arg = [t |-> "names",
                                           v |-> <<table_name, file_col, content_col>>],
                                  !.value = PyBool(o.connected)]
          /\ registry' = IF populate THEN Init_compressors(registry, importable) ELSE registry
          /\ inits' = IF populate THEN inits + 1 ELSE inits
          /\ tree' = IF o.status = "ok" THEN [k \in DOMAIN tree |-> Absent] ELSE tree
          /\ file' = IF o.status = "ok" THEN NoFile ELSE file
          /\ fsCompression' = IF o.status = "ok" THEN NO_COMPRESSION ELSE fsCompression
          /\ fsTransform' = IF o.status = "ok" THEN None ELSE fsTransform
    /\ lastWrite' = IF tree' # tree THEN NoWrite ELSE lastWrite
    /\ lastChange' = IF tree' # tree THEN NoChange ELSE lastChange
    /\ UNCHANGED <<chainVars, fsKind, safe_paths, closes, procs, importable>>

(***************************************************************************)
(* Filesystem.__init__ in a thread, at the granularity of its statements.  *)
(***************************************************************************)
\* Thread t enters Filesystem.__init__ and evaluates `not __COMPRESSORS__`:
\* with a registry that is not empty the construction runs to its end.
ConstructBegin(t) ==
    /\ procs[t].pc = "idle"
    /\ procs' = [procs EXCEPT ![t] =
                    [NoProc EXCEPT !.op = "construct",
                                   !.pc = IF DOMAIN registry = {} THEN "init" ELSE "idle"]]
    /\ UNCHANGED <<chainVars, confVars, tree, file, res, lastWrite, closes, lastChange,
                   inits, importable>>

\* Thread t, having found the registry empty, calls init_compressors() and
\* finishes the construction.
ConstructPopulate(t) ==
    /\ procs[t].pc = "init"
    /\ registry' = Init_compressors(registry, importable)
    /\ inits' = inits + 1
    /\ procs' = [procs EXCEPT ![t] = [NoProc EXCEPT !.op = "construct"]]
    /\ UNCHANGED <<chainVars, fsKind, fsCompression, fsTransform, safe_paths,
                   tree, file, res, lastWrite, closes, lastChange, importable>>

(***************************************************************************)
(* exists, isfile, remove and rename.                                      *)
(***************************************************************************)
\* Where in the storage an operation on `path` looks: the key itself in a
\* MemFilesystem or SQLiteFilesystem; on a LocalFilesystem the path that
\* _validate returns, or, safe_paths being off, the path as the operating
\* system resolves it (relative to the dir_fd directory, else to the working
\* directory).
Location(path, dir_fd) ==
    IF fsKind # "local" THEN path
    ELSE IF safe_paths THEN Resolve[path].final
    ELSE IF dir_fd THEN Resolve[path].fd ELSE Resolve[path].cwd

\* Filesystem.exists -> isfile: MemFilesystem.isfile, SQLiteFilesystem.isfile
\* look the path up; LocalFilesystem.exists and isfile hand the path as given
\* to os.path, which resolves it in the working directory.
Filesystem_isfile(tr, path) ==
    IF fsKind = "local" THEN tr[Resolve[path].cwd].here ELSE tr[path].here

Filesystem_exists(tr, path) == Filesystem_isfile(tr, path)

Outcome(status, tr) == [status |-> status, tree |-> tr]

\* _remove: tree.pop(path), DELETE, os.remove
Raw_remove(tr, at) == [tr EXCEPT ![at] = Absent]

\* A _rename that stores the content under dst and leaves src in place.
Rename_copy(tr, at, to) == [tr EXCEPT ![to] = tr[at]]

\* _rename: tree[dst] = tree.pop(src), UPDATE, os.rename
Raw_rename(tr, at, to) ==
    [k \in DOMAIN tr |-> IF k = to THEN tr[at] ELSE IF k = at THEN Absent ELSE tr[k]]

\* A remove() that goes to _remove without looking for the path.
Remove_unguarded(tr, path, dir_fd) ==
    IF dir_fd THEN Outcome("NotImplementedError", tr)
    ELSE Outcome("ok", Raw_remove(tr, path))

\* Filesystem.remove
Filesystem_remove(tr, path, dir_fd) ==
    IF dir_fd THEN Outcome("NotImplementedError", tr)
    ELSE IF ~Filesystem_exists(tr, path) THEN Outcome("FileNotFoundError", tr)
    ELSE IF ~Filesystem_isfile(tr, path) THEN Outcome("OSError", tr)
    ELSE Outcome("ok", Raw_remove(tr, path))

\* A rename() that looks for src before it looks at the dir_fd arguments.
Rename_exists_first(tr, src, dst, src_dir_fd, dst_dir_fd) ==
    IF ~Filesystem_exists(tr, src) THEN Outcome("FileNotFoundError", tr)
    ELSE IF src_dir_fd \/ dst_dir_fd THEN Outcome("NotImplementedError", tr)
    ELSE IF Filesystem_exists(tr, dst) THEN Outcome("FileExistsError", tr)
    ELSE Outcome("ok", Raw_rename(tr, src, dst))

\* A rename() that does not look for dst.
Rename_overwrite(tr, src, dst, src_dir_fd, dst_dir_fd) ==
    IF src_dir_fd \/ dst_dir_fd THEN Outcome("NotImplementedError", tr)
    ELSE IF ~Filesystem_exists(tr, src) THEN Outcome("FileNotFoundError", tr)
    ELSE Outcome("ok", Raw_rename(tr, src, dst))

\* Filesystem.rename
Filesystem_rename(tr, src, dst, src_dir_fd, dst_dir_fd) ==
    IF src_dir_fd \/ dst_dir_fd THEN Outcome("NotImplementedError", tr)
    ELSE IF ~Filesystem_exists(tr, src) THEN Outcome("FileNotFoundError", tr)
    ELSE IF ~Filesystem_isfile(tr, src) THEN Outcome("OSError", tr)
    ELSE IF Filesystem_exists(tr, dst) THEN Outcome("FileExistsError", tr)
    ELSE Outcome("ok", Raw_rename(tr, src, dst))

\* LocalFilesystem._validate: TRUE where it raises FileNotFoundError.
Refused(path) == safe_paths /\ ~Resolve[path].inside

\* LocalFilesystem.remove: _validate, then os.remove, which raises
\* FileNotFoundError for a file that is not there.
LocalFilesystem_remove(tr, path, dir_fd) ==
    IF Refused(path) THEN Outcome("FileNotFoundError", tr)
    ELSE IF ~tr[Location(path, dir_fd)].here THEN Outcome("FileNotFoundError", tr)
    ELSE Outcome("ok", Raw_remove(tr, Location(path, dir_fd)))

\* LocalFilesystem.rename: _validate of src, then of dst, then os.rename,
\* which replaces a file that is at dst.
LocalFilesystem_rename(tr, src, dst, src_dir_fd, dst_dir_fd) ==
    IF Refused(src) \/ Refused(dst) THEN Outcome("FileNotFoundError", tr)
    ELSE IF ~tr[Location(src, src_dir_fd)].here THEN Outcome("FileNotFoundError", tr)
    ELSE Outcome("ok", Raw_rename(tr, Location(src, src_dir_fd), Location(dst, dst_dir_fd)))

\* fs.exists(path), between two scopes
Exists(path) ==
    /\ file.state # "open"
    /\ res' = [NoRes EXCEPT !.op = "exists", !.path = path,
                            !.value = PyBool(Filesystem_exists(tree, path))]
    /\ UNCHANGED <<chainVars, procVars, confVars, tree, file, lastWrite, closes, lastChange>>

\* fs.isfile(path)
Isfile(path) ==
    /\ file.state # "open"
    /\ res' = [NoRes EXCEPT !.op = "isfile", !.path = path,
                            !.value = PyBool(Filesystem_isfile(tree, path))]
    /\ UNCHANGED <<chainVars, procVars, confVars, tree, file, lastWrite, closes, lastChange>>

\* fs.remove(path, dir_fd=...)
Remove(path, dir_fd) ==
    /\ file.state # "open"
    /\ LET o == IF fsKind = "local" THEN LocalFilesystem_remove(tree, path, dir_fd)
                ELSE Filesystem_remove(tree, path, dir_fd)
           at == Location(path, dir_fd)
       IN /\ tree' = o.tree
          /\ res' = [Raised("remove", o.status, "") EXCEPT !.path = path, !.fd = dir_fd]
          /\ lastChange' = IF o.status = "ok"
                           THEN [NoChange EXCEPT !.op = "remove", !.src = path, !.at = at,
                                                 !.content = tree[at].data]
                           ELSE lastChange
    /\ lastWrite' = IF tree' # tree THEN NoWrite ELSE lastWrite
    /\ UNCHANGED <<chainVars, procVars, confVars, file, closes>>

\* fs.rename(src, dst, src_dir_fd=..., dst_dir_fd=...)
Rename(src, dst, src_dir_fd, dst_dir_fd) ==
    /\ file.state # "open"
    /\ LET o == IF fsKind = "local"
                THEN LocalFilesystem_rename(tree, src, dst, src_dir_fd, dst_dir_fd)
                ELSE Filesystem_rename(tree, src, dst, src_dir_fd, dst_dir_fd)
           at == Location(src, src_dir_fd)
           to == Location(dst, dst_dir_fd)
       IN /\ tree' = o.tree
          /\ res' = [Raised("rename", o.status, "") EXCEPT !.path = src, !.dst = dst,
                                                           !.fd = src_dir_fd \/ dst_dir_fd]
          /\ lastChange' = IF o.status = "ok"
                           THEN [op |-> "rename", src |-> src, dst |-> dst, at |-> at,
                                 to |-> to, content |-> tree[at].data]
                           ELSE lastChange
    /\ lastWrite' = IF tree' # tree THEN NoWrite ELSE lastWrite
    /\ UNCHANGED <<chainVars, procVars, confVars, file, closes>>

(***************************************************************************)
(* Filesystem.rename and a write in threads that share a MemFilesystem,    *)
(* at the granularity of rename's guards and of the raw calls.             *)
(***************************************************************************)
Done(t, op, src, dst, status) ==
    [procs EXCEPT ![t] = [pc |-> "done", op |-> op, src |-> src, dst |-> dst,
                          status |-> status]]

At(t, pc) == [procs EXCEPT ![t].pc = pc]

\* MemFilesystem._rename: tree[dst] = tree.pop(src)
MemFilesystem_rename(tr, src, dst) ==
    IF ~tr[src].here THEN Outcome("KeyError", tr)
    ELSE Outcome("ok", Raw_rename(tr, src, dst))

\* fs.rename(src, dst) is called: `if not self.exists(src)`
RenameCall(t, src, dst) ==
    /\ procs[t].pc = "idle"
    /\ procs' = IF ~Filesystem_exists(tree, src) THEN Done(t, "rename", src, dst, "FileNotFoundError")
                ELSE [procs EXCEPT ![t] = [pc |-> "isfile", op |-> "rename", src |-> src,
                                           dst |-> dst, status |-> "ok"]]
    /\ UNCHANGED <<chainVars, confVars, tree, file, res, lastWrite, closes, lastChange,
                   inits, importable>>

\* `if not self.isfile(src)`
RenameIsfile(t) ==
    /\ procs[t].pc = "isfile"
    /\ procs' = IF ~Filesystem_isfile(tree, procs[t].src)
                THEN Done(t, "rename", procs[t].src, procs[t].dst, "OSError")
                ELSE At(t, "dst")
    /\ UNCHANGED <<chainVars, confVars, tree, file, res, lastWrite, closes, lastChange,
                   inits, importable>>

\* `if self.exists(dst)`
RenameDst(t) ==
    /\ procs[t].pc = "dst"
    /\ procs' = IF Filesystem_exists(tree, procs[t].dst)
                THEN Done(t, "rename", procs[t].src, procs[t].dst, "FileExistsError")
                ELSE At(t, "raw")
    /\ UNCHANGED <<chainVars, confVars, tree, file, res, lastWrite, closes, lastChange,
                   inits, importable>>

\* `self._rename(src, dst)`
RenameRaw(t) ==
    /\ procs[t].pc = "raw"
    /\ LET src == procs[t].src
           dst == procs[t].dst
           o == MemFilesystem_rename(tree, src, dst)
       IN /\ tree' = o.tree
          /\ procs' = Done(t, "rename", src, dst, o.status)
          /\ lastChange' = IF o.status = "ok"
                           THEN [op |-> "rename", src |-> src, dst |-> dst, at |-> src,
                                 to |-> dst, content |-> tree[src].data]
                           ELSE lastChange
    /\ lastWrite' = IF tree' # tree THEN NoWrite ELSE lastWrite
    /\ UNCHANGED <<chainVars, confVars, file, res, closes, inits, importable>>

\* with fs.open(path, "wb") as f: f.write(content) in a thread: MemFile
\* touches the storage in _write only, tree[path] = data.
PutFile(t, path, content) ==
    /\ procs[t].pc = "idle"
    /\ tree' = [tree EXCEPT ![path] = Stored(content.v)]
    /\ procs' = Done(t, "write", path, path, "ok")
    /\ lastWrite' = [path |-> path, content |-> content,
                     compression |-> fsCompression, transform |-> fsTransform]
    /\ lastChange' = NoChange
    /\ UNCHANGED <<chainVars, confVars, file, res, closes, inits, importable>>

(***************************************************************************)
(* Specifications.                                                         *)
(***************************************************************************)
\* A Filesystem right after its construction (the registry is populated by
\* the constructor), with nothing stored.
Init ==
    /\ heap = PoolChain.heap
    /\ chains = <<>>
    /\ call = NoCall
    /\ registry = Registry0
    /\ fsKind \in Backends
    /\ \E d \in Defaults : fsCompression = d.compression /\ fsTransform = d.transform
    /\ tree = [k \in Keys(Paths) |-> Absent]
    /\ file = NoFile
    /\ res = NoRes
    /\ lastWrite = NoWrite
    /\ safe_paths = TRUE
    /\ closes = 0
    /\ lastChange = NoChange
    /\ procs = Idle
    /\ inits = 0
    /\ importable = {"gzip"}

Next ==
    \/ \E path \in Paths, mode \in ModeInputs,
          compression \in CompressionInputs, transform \in TransformInputs :
            Open(path, mode, compression, transform)
    \/ Read
    \/ \E content \in Contents : Write(content)
    \/ Close
    \/ \E e \in BodyErrors : Raise(e)

Spec == Init /\ [][Next]_vars

\* The registry changes while a Filesystem is in use: names are registered
\* and re-registered, and filesystems are constructed with names that are
\* or are not registered.
RegNames == {"gzip", "zstd"}
RegEntries == {Obj(3), Obj(1)}

InitReg ==
    /\ heap = PoolChain.heap
    /\ chains = <<>>
    /\ call = NoCall
    /\ registry = Registry0
    /\ fsKind \in Backends
    /\ fsCompression \in {Str(n) : n \in RegNames}
    /\ fsTransform = None
    /\ tree = [k \in Keys(Paths) |-> Absent]
    /\ file = NoFile
    /\ res = [NoRes EXCEPT !.op = "construct"]
    /\ lastWrite = NoWrite
    /\ safe_paths = TRUE
    /\ closes = 0
    /\ lastChange = NoChange
    /\ procs = Idle
    /\ inits = 0
    /\ importable = {"gzip"}

NextReg ==
    \/ \E name \in RegNames, entry \in RegEntries : Register(name, entry)
    \/ \E name \in RegNames : Construct(Str(name), None)
    \/ \E path \in Paths, mode \in {<<"r", "b">>, <<"w", "b">>},
          compression \in {None} \cup {Str(n) : n \in RegNames} :
            Open(path, mode, compression, None)
    \/ Read
    \/ \E content \in {PyBytes(v) : v \in ByteStrings} : Write(content)
    \/ Close

SpecReg == InitReg /\ [][NextReg]_vars

\* A process from its start: the registry is empty, some of the candidate
\* codecs can be imported.  The program populates the registry, constructs
\* filesystems and registers a codec of its own under an upper-case name.
InitPop ==
    /\ heap = PoolChain.heap
    /\ chains = <<>>
    /\ call = NoCall
    /\ registry = NoRegistry
    /\ fsKind \in Backends
    /\ fsCompression = NO_COMPRESSION
    /\ fsTransform = None
    /\ tree = [k \in Keys(Paths) |-> Absent]
    /\ file = NoFile
    /\ res = NoRes
    /\ lastWrite = NoWrite
    /\ safe_paths = TRUE
    /\ closes = 0
    /\ lastChange = NoChange
    /\ procs = Idle
    /\ inits = 0
    /\ importable \in SUBSET {"bz2", "gzip", "lzma", "zstd"}

NextPop ==
    \/ InitCall
    \/ Register("GZIP", Obj(1))
    \/ Construct(NO_COMPRESSION, None)

SpecPop == InitPop /\ [][NextPop]_vars

\* The contents written in the filesystem specifications.
FsContents == { PyBytes(<<65>>), PyBytes(<<66>>) }

\* A bucket is written, read and asked for its keys while the service
\* sometimes refuses or fails a call.
InitS3 ==
    /\ heap = PoolChain.heap
    /\ chains = <<>>
    /\ call = NoCall
    /\ registry = Registry0
    /\ fsKind = "s3"
    /\ fsCompression = NO_COMPRESSION
    /\ fsTransform = None
    /\ safe_paths = TRUE
    /\ tree = [k \in Keys(FsPaths) |-> Absent]
    /\ file = NoFile
    /\ res = NoRes
    /\ lastWrite = NoWrite
    /\ closes = 0
    /\ lastChange = NoChange
    /\ procs = Idle
    /\ inits = 0
    /\ importable = {"gzip"}

NextS3 ==
    \/ \E path \in FsPaths, mode \in {<<"r", "b">>, <<"w", "b">>} : Open(path, mode, None, None)
    \/ \E fault \in S3Faults : S3Read(fault)
    \/ \E content \in FsContents : Write(content)
    \/ Close
    \/ \E path \in FsPaths, fault \in S3Faults : S3Isfile(path, fault)

SpecS3 == InitS3 /\ [][NextS3]_vars

\* Two threads share a MemFilesystem; each renames or writes once.
RacePaths == { <<"a">>, <<"b">>, <<"c">> }

InitRace ==
    /\ heap = PoolChain.heap
    /\ chains = <<>>
    /\ call = NoCall
    /\ registry = Registry0
    /\ fsKind = "mem"
    /\ fsCompression = NO_COMPRESSION
    /\ fsTransform = None
    /\ safe_paths = TRUE
    /\ tree \in [RacePaths -> {Absent, Stored(<<65>>), Stored(<<66>>)}]
    /\ file = NoFile
    /\ res = NoRes
    /\ lastWrite = NoWrite
    /\ closes = 0
    /\ lastChange = NoChange
    /\ procs = Idle
    /\ inits = 0
    /\ importable = {"gzip"}

NextRace ==
    \E t \in Threads :
        \/ \E src \in RacePaths, dst \in RacePaths : RenameCall(t, src, dst)
        \/ RenameIsfile(t)
        \/ RenameDst(t)
        \/ RenameRaw(t)
        \/ \E path \in RacePaths, content \in FsContents : PutFile(t, path, content)

SpecRace == InitRace /\ [][NextRace]_vars

\* SQLite filesystems are constructed with names that are identifiers and
\* names that are not: "", "a", "_1", "a[", "a\n", "a-b", "b".
IdentInputs ==
    { <<>>, <<97>>, <<95, 49>>, <<97, 91>>, <<97, 10>>, <<97, 45, 98>>, <<98>> }

InitSql ==
    /\ heap = PoolChain.heap
    /\ chains = <<>>
    /\ call = NoCall
    /\ registry \in {NoRegistry, Registry0}
    /\ fsKind = "sqlite"
    /\ fsCompression = NO_COMPRESSION
    /\ fsTransform = None
    /\ tree = [k \in Keys(Paths) |-> Absent]
    /\ file = NoFile
    /\ res = NoRes
    /\ lastWrite = NoWrite
    /\ safe_paths = TRUE
    /\ closes = 0
    /\ lastChange = NoChange
    /\ procs = Idle
    /\ inits = 0
    /\ importable = {"gzip"}

NextSql ==
    \E table_name \in IdentInputs, file_col \in IdentInputs, content_col \in IdentInputs :
        SqliteConstruct(table_name, file_col, content_col)

SpecSql == InitSql /\ [][NextSql]_vars

\* Threads construct filesystems in a process that never calls
\* init_compressors() itself.
NextThreads ==
    \/ \E t \in Threads : ConstructBegin(t)
    \/ \E t \in Threads : ConstructPopulate(t)

SpecThreads == InitPop /\ [][NextThreads]_vars

\* The dir_fd arguments of a rename(): none, src_dir_fd, dst_dir_fd.
DirFds == { <<FALSE, FALSE>>, <<TRUE, FALSE>>, <<FALSE, TRUE>> }

\* Files are written, looked for, removed and renamed under FsPaths.  Nothing
\* is compressed or transformed.  The directories "/", "/c", "/r" and "/r2"
\* exist; the working directory may hold a file of its own.
InitFs ==
    /\ heap = PoolChain.heap
    /\ chains = <<>>
    /\ call = NoCall
    /\ registry = Registry0
    /\ fsKind \in Backends
    /\ fsCompression = NO_COMPRESSION
    /\ fsTransform = None
    /\ safe_paths = TRUE
    /\ \E own \in (IF fsKind = "local" THEN {Absent, Stored(<<67>>)} ELSE {Absent}) :
          tree = [k \in Keys(FsPaths) |-> IF k = Abspath(Cwd, <<"a">>) THEN own ELSE Absent]
    /\ file = NoFile
    /\ res = NoRes
    /\ lastWrite = NoWrite
    /\ closes = 0
    /\ lastChange = NoChange
    /\ procs = Idle
    /\ inits = 0
    /\ importable = {"gzip"}

NextFs ==
    \/ \E path \in FsPaths, mode \in {<<"r", "b">>, <<"w", "b">>} : Open(path, mode, None, None)
    \/ Read
    \/ \E content \in FsContents : Write(content)
    \/ Close
    \/ \E path \in FsPaths : Exists(path)
    \/ \E path \in FsPaths : Isfile(path)
    \/ \E path \in FsPaths, dir_fd \in BOOLEAN : Remove(path, dir_fd)
    \/ \E src \in FsPaths, dst \in FsPaths, fds \in DirFds :
          Rename(src, dst, fds[1], fds[2])

SpecFs == InitFs /\ [][NextFs]_vars

\* One File is read and written several times before its scope ends.  The
\* modes include the update modes of the native open.
HandleModes == ModeInputs \cup { <<"r", "+">>, <<"r", "+", "b">>, <<"w", "+", "b">> }
HandleContents == { PyStr(<<65>>), PyBytes(<<65>>) }

InitHandle ==
    /\ heap = PoolChain.heap
    /\ chains = <<>>
    /\ call = NoCall
    /\ registry = Registry0
    /\ fsKind \in Backends
    /\ fsCompression = NO_COMPRESSION
    /\ fsTransform = None
    /\ tree = [k \in Keys(Paths) |-> Absent]
    /\ file = NoFile
    /\ res = NoRes
    /\ lastWrite = NoWrite
    /\ safe_paths = TRUE
    /\ closes = 0
    /\ lastChange = NoChange
    /\ procs = Idle
    /\ inits = 0
    /\ importable = {"gzip"}

NextHandle ==
    \/ \E path \in Paths, mode \in HandleModes : Open(path, mode, None, None)
    \/ ReadNext
    \/ \E content \in HandleContents : WriteNext(content)
    \/ Close

SpecHandle == InitHandle /\ [][NextHandle]_vars

\* A File is opened, used, left and then used again by the caller that kept it.
LifeModes == { <<"r", "b">>, <<"w", "b">>, <<"r">>, <<"w">> }

NextLife ==
    \/ \E path \in Paths, mode \in LifeModes : Open(path, mode, None, None)
    \/ ReadNext
    \/ \E content \in HandleContents : WriteNext(content)
    \/ Exit
    \/ StaleRead
    \/ \E content \in HandleContents : StaleWrite(content)
    \/ Reenter

SpecLife == InitHandle /\ [][NextLife]_vars

\* Transforms alone: chain(), apply() and remove() on the caller's objects.
InitChain ==
    /\ heap = BaseHeap
    /\ chains = <<>>
    /\ call = NoCall
    /\ registry = Registry0
    /\ fsKind = "mem"
    /\ fsCompression = NO_COMPRESSION
    /\ fsTransform = None
    /\ tree = [k \in Keys(Paths) |-> Absent]
    /\ file = NoFile
    /\ res = NoRes
    /\ lastWrite = NoWrite
    /\ safe_paths = TRUE
    /\ closes = 0
    /\ lastChange = NoChange
    /\ procs = Idle
    /\ inits = 0
    /\ importable = {"gzip"}

NextChain ==
    \/ \E transforms \in SeqsUpTo(Held, MaxChain) \ {<<>>} : ChainCall(transforms)
    \/ \E t \in Held, data \in DataInputs : ApplyCall(t, data)
    \/ \E t \in Held, data \in DataInputs : RemoveCall(t, data)
    \/ RemoveApplied

SpecChain == InitChain /\ [][NextChain]_vars

(***************************************************************************)
(* Properties of transforms and chains (SpecChain).                        *)
(***************************************************************************)
RECURSIVE Ascending(_, _, _)
Ascending(fns, i, x) ==
    IF i > Len(fns) THEN x ELSE Ascending(fns, i + 1, Fwd(fns[i], x))

RECURSIVE Descending(_, _, _)
Descending(fns, i, y) ==
    IF i < 1 THEN y ELSE Descending(fns, i - 1, Bwd(fns[i], y))

ArgFns(c) == [i \in 1..Len(c.args) |-> heap[c.args[i]].fn]
PlainArgs(c) == \A i \in 1..Len(c.args) : heap[c.args[i]].dependent = 0

\* C3: for a chain built by chain(t1, ..., tn) from plain transforms, apply runs
\* the forward functions t1, ..., tn in ascending order, remove runs the backward
\* functions tn, ..., t1 in descending order, and remove(apply(x)) = x.
C3_ChainOrder ==
    \A k \in 1..Len(chains) :
        LET c == chains[k]
        IN (PlainArgs(c) /\ call.t = c.head) =>
              /\ call.op = "apply" => call.out = Ascending(ArgFns(c), 1, call.data)
              /\ call.op = "remove" =>
                    call.out = Descending(ArgFns(c), Len(c.args), call.data)
              /\ (call.op = "remove" /\ call.orig # ERR) => call.out = call.orig

\* A two-link chain of different transforms has taken apply(x) and then remove.
C3_Witness ==
    \E k \in 1..Len(chains) :
        LET c == chains[k]
        IN /\ Len(c.args) = 2 /\ PlainArgs(c)
           /\ heap[c.args[1]].fn # heap[c.args[2]].fn
           /\ call.op = "remove" /\ call.t = c.head
           /\ call.orig # ERR /\ call.orig # <<>>
           /\ call.data # call.orig

\* The objects a transform's apply and remove run through.
RECURSIVE Links(_, _)
Links(h, t) == IF h[t].dependent = 0 THEN {t} ELSE {t} \cup Links(h, h[t].dependent)

Range(f) == {f[i] : i \in DOMAIN f}

\* C4: chain() does not mutate its arguments: no existing object changes, the
\* caller's own transforms keep no dependent, apply and remove of every object
\* the caller holds give the same results after the call as before, and two
\* chains share no link, nor does a chain share one with its arguments.
C4_ChainNoMutation ==
    /\ [](/\ \A a \in BaseIds : heap[a].dependent = 0
          /\ \A i, j \in 1..Len(chains) :
                i # j => Links(heap, chains[i].head) \cap Links(heap, chains[j].head) = {}
          /\ \A i \in 1..Len(chains) :
                \A a \in Range(chains[i].args) :
                    Links(heap, chains[i].head) \cap Links(heap, a) = {})
    /\ [][\/ heap' = heap
          \/ /\ Len(heap') > Len(heap)
             /\ \A t \in 1..Len(heap) : heap'[t] = heap[t]
             /\ \A t \in Held, d \in DataInputs :
                   /\ Transform_apply(heap', t, d) = Transform_apply(heap, t, d)
                   /\ Transform_remove(heap', t, d) = Transform_remove(heap, t, d)]_vars

\* Two chains were built from the same instance, the first with a second link,
\* and the instance is then used alone.
C4_Witness ==
    \E i, j \in 1..Len(chains) :
        /\ i < j
        /\ \E a \in BaseIds : a \in Range(chains[i].args) /\ a \in Range(chains[j].args)
                              /\ call.op = "apply" /\ call.t = a
        /\ heap[chains[i].head].dependent # 0

(***************************************************************************)
(* Properties of files (Spec).                                             *)
(***************************************************************************)
\* The backends whose File keeps the generic checks.
Generic == fsKind \in {"mem", "sqlite"}

BytesOf(v) == IF v.t = "str" THEN Encode(v.v) ELSE v.v

\* The read of this scope returned, on the path and with the pipeline of the
\* last write.
ReadBack ==
    /\ res.op = "read" /\ res.status = "ok"
    /\ lastWrite # NoWrite
    /\ file.path = lastWrite.path
    /\ file.compression = lastWrite.compression
    /\ file.transform = lastWrite.transform

\* C1: on every backend and with every pipeline, content X written to a path
\* and read back through a new open with the same compression and transform
\* is X: the encoded bytes of X on a binary handle, the string X on a text one.
C1_RoundTrip ==
    ReadBack =>
        LET X == lastWrite.content
        IN /\ (X.t = "str" /\ Has(file.mode, "b")) => res.value = PyBytes(Encode(X.v))
           /\ (X.t = "str" /\ ~Has(file.mode, "b")) => res.value = X
           /\ (X.t = "bytes" /\ Has(file.mode, "b")) => res.value = X

\* C2: with both a transform T and a compression C, write stores
\* C.apply(T.apply(encoded content)) and read returns
\* T.remove(C.remove(stored bytes)).
C2_PipelineOrder ==
    (Truthy(file.compression) /\ Truthy(file.transform) /\ res.status = "ok") =>
        LET T == file.transform.id
            C == file.compression.id
        IN /\ res.op = "write" =>
                 LET stored == Transform_apply(heap, C,
                                   Transform_apply(heap, T, BytesOf(res.arg)))
                 IN /\ res.raw = PyBytes(stored)
                    /\ tree[file.path] = Stored(stored)
           /\ res.op = "read" =>
                 /\ res.raw = PyBytes(tree[file.path].data)
                 /\ BytesOf(res.value) =
                        Transform_remove(heap, T, Transform_remove(heap, C, res.raw.v))

\* A chain and a compression have written content and a new scope read it.
C2_Witness ==
    /\ ReadBack
    /\ Truthy(file.compression) /\ Truthy(file.transform)
    /\ heap[file.transform.id].dependent # 0
    /\ lastWrite.content.v # <<>>
    /\ BytesOf(res.value) = BytesOf(lastWrite.content)

\* C5: on every backend the integer write() returns is the number of bytes
\* stored for the path after the write.
C5_WriteCount ==
    (res.op = "write" /\ res.status = "ok") =>
        res.value = PyInt(Len(tree[file.path].data))

\* The verdict of the mode checks on the mode an open was called with.
ModeVerdict(m) ==
    IF \E i \in 1..Len(m) : m[i] \notin {"r", "w", "b", "t", "+"}
    THEN res.status = "ValueError" /\ res.msg = "Invalid mode" /\ file.state # "open"
    ELSE IF Has(m, "r") /\ Has(m, "w")
    THEN /\ res.status = "ValueError" /\ file.state # "open"
         /\ res.msg = "must have exactly one of read/write mode"
    ELSE IF Has(m, "t") /\ Has(m, "b")
    THEN /\ res.status = "ValueError" /\ file.state # "open"
         /\ res.msg = "can't have text and binary mode at once"
    ELSE res.status = "ok" /\ file.state = "open"

\* C6: on the backends with the generic checks, the open of a File whose mode
\* has a character outside {r, w, b, t, +} fails with ValueError; otherwise a
\* mode with both r and w fails with ValueError; otherwise a mode with both t
\* and b fails with ValueError; in that order, and the File is never open after
\* a failure.  (A File exists once its compression name was found in the
\* registry.)
C6_ModeValidation ==
    (Generic /\ res.op = "open" /\ res.status # "KeyError") => ModeVerdict(res.arg.v)

\* A mode that fails two of the checks was refused by the earlier one.
C6_Witness ==
    /\ Generic /\ res.op = "open"
    /\ res.arg.v = <<"r", "w", "t", "b">>
    /\ res.msg = "must have exactly one of read/write mode"

\* C7: the mode of every File opened through the generic checks has only
\* characters of {r, w, b, t, +}, exactly one of r and w, and exactly one of
\* t and b.
C7_ModeInvariant ==
    (Generic /\ file.state = "open") =>
        /\ \A i \in 1..Len(file.mode) : file.mode[i] \in {"r", "w", "b", "t", "+"}
        /\ Has(file.mode, "r") # Has(file.mode, "w")
        /\ Has(file.mode, "t") # Has(file.mode, "b")

\* C8: with the generic checks, read() on a mode without r fails with
\* UnsupportedOperation whether or not the path exists, write() on a mode
\* without w fails with UnsupportedOperation whatever the content's type, and
\* the storage is unchanged.
C8_Unsupported ==
    /\ []((Generic /\ file.state = "open") =>
            /\ (res.op = "read" /\ ~Has(file.mode, "r")) =>
                    res.status = "UnsupportedOperation"
            /\ (res.op = "write" /\ ~Has(file.mode, "w")) =>
                    res.status = "UnsupportedOperation")
    /\ [][(Generic /\ file.ops = 0 /\ file'.ops = 1
              /\ res'.status = "UnsupportedOperation") => tree' = tree]_vars

\* A write-only handle on a path that does not exist was read.
C8_Witness ==
    /\ fsKind = "mem" /\ file.state = "open"
    /\ res.op = "read" /\ res.status = "UnsupportedOperation"
    /\ Has(file.mode, "w")
    /\ ~tree[file.path].here

\* C9: on a writeable File with the generic checks, write(content) fails with
\* TypeError when content is neither bytes nor str, when it is bytes and the
\* mode lacks b, and when it is str and the mode lacks t; nothing is handed to
\* the backend and the stored content is unchanged.
C9_WriteTypes ==
    /\ []((Generic /\ file.state = "open" /\ res.op = "write" /\ Has(file.mode, "w")
             /\ (\/ res.arg.t \notin {"bytes", "str"}
                 \/ res.arg.t = "bytes" /\ ~Has(file.mode, "b")
                 \/ res.arg.t = "str" /\ ~Has(file.mode, "t")))
            => res.status = "TypeError" /\ res.raw = PyNone)
    /\ [][(Generic /\ file.ops = 0 /\ file'.ops = 1 /\ res'.status = "TypeError")
            => tree' = tree]_vars

\* Bytes were refused by a text handle on a path that holds content.
C9_Witness ==
    /\ Generic /\ file.state = "open"
    /\ res.op = "write" /\ res.status = "TypeError" /\ res.arg.t = "bytes"
    /\ Has(file.mode, "w") /\ Has(file.mode, "t")
    /\ tree[file.path].here /\ tree[file.path].data # <<>>

\* C10: on every backend and with every pipeline a successful read() returns
\* bytes on a binary handle and a string on a text handle, a mode with neither
\* t nor b being text.
C10_ReadType ==
    (res.op = "read" /\ res.status = "ok") =>
        /\ Has(file.mode, "b") => res.value.t = "bytes"
        /\ ~Has(file.mode, "b") => res.value.t = "str"

\* C11: for every File whose open succeeded, _close is called exactly once
\* when the scope exits, whether the body returned, raised, or did no read or
\* write; an error raised in the body reaches the caller unchanged after the
\* close; when the open fails no close is called.
C11_ScopedRelease ==
    /\ file.state = "open" => closes = 0
    /\ file.state = "closed" => closes = 1
    /\ (res.op = "open" /\ res.status # "ok") => (file.state = "none" /\ closes = 0)
    /\ res.op = "exit" => (res.status = res.msg /\ file.state = "closed")
    /\ res.op = "close" => (res.status = "ok" /\ file.state = "closed")

\* A scope that neither read nor wrote was left by an error of the body.
C11_Witness ==
    /\ res.op = "exit" /\ res.status = "RuntimeError"
    /\ closes = 1
    /\ tree[res.path] = Stored(<<>>)

\* What a compression or transform argument stands for: a registered name
\* for its registry entry, the "none" sentinel for nothing.
Meaning(x) ==
    IF x.k = "str" THEN registry[x.s] ELSE x

\* C12: the compression and the transform of a File created by open are the
\* per-call override when one is given and the filesystem default otherwise,
\* each on its own; an override "none" wins over a default and gives a File
\* without compression (without transform); a read with both overrides "none"
\* returns the stored bytes unchanged.
C12_EffectivePipeline ==
    /\ (res.op = "open" /\ res.status = "ok") =>
          /\ file.compression = Meaning(IF res.compression # None THEN res.compression
                                        ELSE fsCompression)
          /\ file.transform = Meaning(IF res.transform # None THEN res.transform
                                      ELSE fsTransform)
          /\ res.compression = NO_COMPRESSION => file.compression = None
          /\ res.transform = NO_TRANSFORM => file.transform = None
    /\ (res.op = "read" /\ res.status = "ok"
           /\ file.compression = None /\ file.transform = None /\ Has(file.mode, "b"))
          => res.value = PyBytes(tree[file.path].data)

\* A filesystem with a default codec and a default transform was read with
\* both overrides "none": the bytes returned are the compressed ones.
C12_Witness ==
    /\ res.op = "read" /\ res.status = "ok" /\ Has(file.mode, "b")
    /\ Truthy(Meaning(fsCompression)) /\ Truthy(fsTransform)
    /\ file.compression = None /\ file.transform = None
    /\ lastWrite # NoWrite /\ Truthy(lastWrite.compression) /\ Truthy(lastWrite.transform)
    /\ res.value.v # BytesOf(lastWrite.content)

\* The compression name an open that succeeded was called with.
NameUsed == IF res.compression # None THEN res.compression ELSE fsCompression

\* C13: a compression name is looked up when a File is opened, not when the
\* Filesystem is constructed: construction with an unregistered name succeeds,
\* an open with an unregistered name fails with KeyError and leaves the
\* backend alone, and an open after the name was registered or re-registered
\* uses the registry's entry of that moment.
C13_OpenTimeResolution ==
    /\ [](/\ res.op = "construct" => res.status = "ok"
          /\ res.op = "open" =>
                /\ res.status \in {"ok", "KeyError", "FileNotFoundError"}
                /\ res.status = "FileNotFoundError" => fsKind = "local"
                /\ res.status = "KeyError" =>
                      (res.msg \notin DOMAIN registry /\ file.state = "none")
                /\ (res.status = "ok" /\ NameUsed.k = "str") =>
                      /\ NameUsed.s \in DOMAIN registry
                      /\ file.compression = registry[NameUsed.s])
    /\ [][(res'.op = "open" /\ res'.status = "KeyError") => tree' = tree]_vars

\* A filesystem constructed with a name that init_compressors did not
\* register opened a File after the name was registered, on data written
\* under the entry the name had before.
C13_Witness ==
    /\ res.op = "open" /\ res.status = "ok"
    /\ res.compression = None /\ fsCompression = Str("zstd")
    /\ file.compression = registry["zstd"]
    /\ lastWrite # NoWrite /\ lastWrite.compression # file.compression
    /\ lastWrite.compression # None

(***************************************************************************)
(* Properties of exists, remove and rename (SpecFs).                       *)
(***************************************************************************)
FNF == "FileNotFoundError"

\* C14: on the in-memory and SQLite backends, reading a path that is not
\* stored, removing a path that is not stored and renaming a source that is
\* not stored each fail with FileNotFoundError, and the storage is left as it
\* was.
C14_NotFound ==
    /\ []((Generic /\ res.op = "read" /\ Has(file.mode, "r") /\ ~tree[file.path].here)
            => res.status = FNF)
    /\ [][Generic =>
            /\ (res'.op = "read" /\ res'.status = FNF) => tree' = tree
            /\ (res'.op \in {"remove", "rename"} /\ ~res'.fd /\ ~tree[res'.path].here)
                  => (res'.status = FNF /\ tree' = tree)]_vars

C14_Witness ==
    /\ Generic
    /\ res.op = "rename"
    /\ ~res.fd
    /\ res.status = FNF
    /\ tree[res.dst].here
    /\ res.dst # res.path

\* C15: on the in-memory and SQLite backends, rename(src, dst) of a stored
\* src onto a dst that is stored (dst may be src itself) fails with
\* FileExistsError and the storage, so the source entry and the destination
\* entry, is left as it was.
C15_RenameCollision ==
    [][(Generic /\ res'.op = "rename" /\ ~res'.fd
          /\ tree[res'.path].here /\ tree[res'.dst].here)
        => (res'.status = "FileExistsError" /\ tree' = tree)]_vars

\* C15 as stated, for every src: a rename() onto a stored dst fails with
\* FileExistsError.
C15_AnySource ==
    [][(Generic /\ res'.op = "rename" /\ ~res'.fd /\ tree[res'.dst].here)
        => (res'.status = "FileExistsError" /\ tree' = tree)]_vars

C15_Witness ==
    /\ Generic
    /\ res.op = "rename"
    /\ res.status = "FileExistsError"
    /\ res.path # res.dst
    /\ tree[res.path].here
    /\ tree[res.dst].here
    /\ tree[res.path].data # tree[res.dst].data

\* C16: on the in-memory and SQLite backends, a remove() with a dir_fd and a
\* rename() with a src_dir_fd or a dst_dir_fd fail with NotImplementedError,
\* whether the paths are stored or not, and the storage is left as it was.
C16_DirFd ==
    /\ []((Generic /\ res.op \in {"remove", "rename"} /\ res.fd)
            => res.status = "NotImplementedError")
    /\ [][(Generic /\ res'.op \in {"remove", "rename"} /\ res'.fd) => tree' = tree]_vars

\* A rename with a dir_fd argument, of a source that is not stored onto a
\* destination that is.
C16_Witness ==
    /\ Generic
    /\ res.op = "rename"
    /\ res.fd
    /\ res.status = "NotImplementedError"
    /\ ~tree[res.path].here
    /\ tree[res.dst].here

\* What is seen of the path p once remove(p) has succeeded and until the
\* storage changes again: exists(p) and isfile(p) are false, and reading p
\* raises FileNotFoundError (from read(), or from the open() of a native file).
AfterRemove ==
    lastChange.op = "remove" =>
        /\ (res.op \in {"exists", "isfile"} /\ res.path = lastChange.src)
              => res.value = PyBool(FALSE)
        /\ (res.op = "read" /\ Has(file.mode, "r") /\ file.path = lastChange.at)
              => res.status = FNF
        /\ (res.op = "open" /\ Has(res.arg.v, "r") /\ res.path = lastChange.src
              /\ fsKind = "local") => res.status = FNF

\* A successful remove(p) takes p out of the storage and leaves every other
\* entry as it was.
RemoveFrame ==
    (res'.op = "remove" /\ res'.status = "ok") =>
        /\ lastChange'.op = "remove"
        /\ tree[lastChange'.at].here
        /\ ~tree'[lastChange'.at].here
        /\ \A k \in DOMAIN tree : k # lastChange'.at => tree'[k] = tree[k]

\* C17: after a successful remove(p) of a stored p, exists(p) and isfile(p)
\* are false, a later read of p fails with FileNotFoundError, and every other
\* stored path keeps its content.
C17_RemoveEffect == []AfterRemove /\ [][RemoveFrame]_vars

\* What is read once rename(src, dst) has succeeded and until the storage
\* changes again: dst gives the content src held, src is not found.
AfterRename ==
    lastChange.op = "rename" =>
        /\ (res.op = "read" /\ Has(file.mode, "r") /\ file.path = lastChange.to)
              => (res.status = "ok" /\ res.value = PyBytes(lastChange.content))
        /\ (res.op = "read" /\ Has(file.mode, "r") /\ file.path = lastChange.at
              /\ lastChange.at # lastChange.to) => res.status = FNF

\* A successful rename of a stored src to a dst that is not stored moves the
\* entry and leaves every other entry as it was.
RenameFrame ==
    (res'.op = "rename" /\ res'.status = "ok"
        /\ tree[lastChange'.at].here /\ ~tree[lastChange'.to].here) =>
        /\ lastChange'.op = "rename"
        /\ lastChange'.content = tree[lastChange'.at].data
        /\ tree'[lastChange'.to] = tree[lastChange'.at]
        /\ ~tree'[lastChange'.at].here
        /\ \A k \in DOMAIN tree \ {lastChange'.at, lastChange'.to} : tree'[k] = tree[k]

InsideRoot(k) == k = directory \/ StartsWith(k, directory \o <<"/">>)

\* The path arguments of the operation whose outcome is in r.
PathArgs(r) == IF r.op = "rename" THEN {r.path, r.dst} ELSE {r.path}

\* C19: on a LocalFilesystem with safe_paths, every open, remove and rename
\* either has all its paths resolve inside the root directory or fails with
\* FileNotFoundError, and no step opens a file outside the root or creates,
\* deletes, moves or changes one there (the root's sibling "/r2" included).
C19_Containment ==
    /\ []((fsKind = "local" /\ safe_paths /\ res.op \in {"open", "remove", "rename"})
            => (\/ \A p \in PathArgs(res) : InsideRoot(FinalPath(p))
                \/ res.status = FNF))
    /\ []((fsKind = "local" /\ safe_paths /\ file.state = "open") => InsideRoot(file.path))
    /\ [][(fsKind = "local" /\ safe_paths)
            => \A k \in DOMAIN tree : ~InsideRoot(k) => tree'[k] = tree[k]]_vars

(***************************************************************************)
(* Properties of one File over its lifetime (SpecHandle).                  *)
(***************************************************************************)
\* C20: on every backend and for every mode an open() accepts, a read() and
\* a write() do not both succeed on the same File.
C20_SingleOperation == ~(file.read /\ file.wrote)

(***************************************************************************)
(* Properties of a File after its scope (SpecLife).                        *)
(***************************************************************************)
\* C21: once the scope of a File has exited, the File is never open again,
\* and a read() or write() called on it does no backend I/O (it does not
\* succeed) and does not change the storage.
C21_Lifecycle ==
    [][Stale =>
          /\ res'.op = "enter" => file'.state # "open"
          /\ res'.op \in {"read", "write"} => (res'.status # "ok" /\ tree' = tree)]_vars

(***************************************************************************)
(* Chains of chains (SpecChain).                                           *)
(***************************************************************************)
\* The functions a transform runs through, in the order of its links.
RECURSIVE FnsOf(_, _)
FnsOf(h, t) == <<h[t].fn>> \o (IF h[t].dependent = 0 THEN <<>> ELSE FnsOf(h, h[t].dependent))

\* The functions of the arguments of a chain() call, one after the other.
RECURSIVE FlatFns(_, _)
FlatFns(args, i) == IF i > Len(args) THEN <<>> ELSE FnsOf(heap, args[i]) \o FlatFns(args, i + 1)

\* C26: a chain built from arguments that are chains themselves keeps their
\* links: apply runs the functions of all links of all arguments in ascending
\* order and remove runs them in descending order, as the chain of the plain
\* transforms does (chain(chain(A, B), C) behaves as chain(A, B, C)).
C26_NestedChains ==
    \A k \in 1..Len(chains) :
        LET c == chains[k]
            fns == FlatFns(c.args, 1)
        IN call.t = c.head =>
              /\ call.op = "apply" => call.out = Ascending(fns, 1, call.data)
              /\ call.op = "remove" => call.out = Descending(fns, Len(fns), call.data)

(***************************************************************************)
(* Properties of the registry's population (SpecPop, SpecThreads).         *)
(***************************************************************************)
Rank(n) == CHOOSE i \in 1..Len(Alphabet) : Alphabet[i] = n
Ascends(l) == \A i \in 1..(Len(l) - 1) : Rank(l[i]) < Rank(l[i + 1])

\* C22: init_compressors() always registers "none" as no transform, registers
\* every candidate codec that can be imported and none that cannot, raises
\* nothing, and returns the sorted list of the lower-cased registered names,
\* in which "none" occurs exactly once; called again at once it returns the
\* same list and leaves the same names registered.
C22_Population ==
    /\ [](res.op = "init" =>
            /\ res.status = "ok"
            /\ "none" \in DOMAIN registry /\ registry["none"] = None
            /\ \A lib \in LibSet \cap importable :
                  lib \in DOMAIN registry /\ Truthy(registry[lib])
            /\ Range(res.value.v) = {Lower(k) : k \in DOMAIN registry}
            /\ Ascends(res.value.v)
            /\ Cardinality({i \in DOMAIN res.value.v : res.value.v[i] = "none"}) = 1)
    /\ [][res'.op = "init" =>
            /\ \A lib \in LibSet \ importable :
                  lib \in DOMAIN registry' => lib \in DOMAIN registry
            /\ res.op = "init" =>
                  (res'.value = res.value /\ DOMAIN registry' = DOMAIN registry)]_vars

\* The second run, with some codecs importable and some not, and with "GZIP"
\* registered beside "gzip".
C22_Witness ==
    /\ res.op = "init"
    /\ inits = 2
    /\ "GZIP" \in DOMAIN registry
    /\ "gzip" \in importable
    /\ "zstd" \notin importable
    /\ Len(res.value.v) = Cardinality(importable) + 1

\* C23: with no explicit init_compressors() call, the registry is populated
\* once, by the first construction that finds it empty: no construction
\* populates a registry that is not empty, and nothing empties it again.
C23_PopulatedOnce ==
    /\ [](inits <= 1)
    /\ [](inits = 1 <=> DOMAIN registry # {})
    /\ [][DOMAIN registry # {} => (inits' = inits /\ DOMAIN registry' # {})]_vars

(***************************************************************************)
(* Properties of SQLiteFilesystem's construction (SpecSql).                *)
(***************************************************************************)
\* An ASCII letter, a digit or an underscore.
WordChar(c) == (c >= 65 /\ c <= 90) \/ (c >= 97 /\ c <= 122) \/ (c >= 48 /\ c <= 57) \/ c = 95

\* A name that is empty or holds a character that is not a word character.
BadName(v) == v = <<>> \/ \E i \in 1..Len(v) : ~WordChar(v[i])

\* C24: constructing a SQLiteFilesystem whose table name, file column or
\* content column is empty or holds a character that is not an ASCII letter,
\* a digit or an underscore fails with ValueError, before a connection is
\* opened.
C24_Identifiers ==
    (res.op = "sqlite" /\ \E i \in 1..3 : BadName(res.arg.v[i]))
        => (res.status = "ValueError" /\ res.value = PyBool(FALSE))

(***************************************************************************)
(* Properties of the S3 backend (SpecS3).                                  *)
(***************************************************************************)
\* C25: on the S3 backend a read whose get-object call fails with NoSuchKey
\* fails with FileNotFoundError, isfile is False when head-object answers
\* "404", and every other ClientError of the two calls reaches the caller as
\* the ClientError with the same code.
C25_ErrorNormalization ==
    (res.op \in {"read", "isfile"} /\ IsClientError(res.raw)) =>
        LET code == res.raw.v[2]
        IN IF res.op = "read" /\ code = "NoSuchKey"
           THEN res.status = "FileNotFoundError"
           ELSE IF res.op = "isfile" /\ code = "404"
           THEN res.status = "ok" /\ res.value = PyBool(FALSE)
           ELSE res.status = "ClientError" /\ res.msg = code

\* isfile was refused by the service on a key that is stored.
C25_Witness ==
    /\ res.op = "isfile" /\ res.status = "ClientError" /\ res.msg = "403"
    /\ tree[res.path].here

(***************************************************************************)
(* Properties across the operations of one filesystem (SpecFs).            *)
(***************************************************************************)
\* A relative path that stays in the filesystem's root.
NonEscaping(p) == p # <<>> /\ p[1] # "/" /\ (fsKind = "local" => InsideRoot(FinalPath(p)))

\* The entry that open(p) reads and writes.
OpenEntry(p) == IF fsKind = "local" THEN Resolve[p].final ELSE p

\* C27: after a successful write to a non-escaping relative path p, and
\* while the entry is stored, exists(p) and isfile(p) are true, and a
\* successful remove(p) deletes the entry that open(p) reads.
C27_PathConsistency ==
    /\ (/\ res.op \in {"exists", "isfile"}
        /\ NonEscaping(res.path)
        /\ lastWrite # NoWrite
        /\ lastWrite.path = OpenEntry(res.path)
        /\ tree[OpenEntry(res.path)].here) => res.value = PyBool(TRUE)
    /\ (res.op = "remove" /\ res.status = "ok" /\ NonEscaping(res.path))
          => lastChange.at = OpenEntry(res.path)

\* C28: on every backend an open(), a read() and the end of a scope leave
\* the stored contents as they were: a scope opened for writing that never
\* writes creates no entry and changes none, and reads change nothing.
C28_OpenChangesNothing ==
    [][res'.op \in {"open", "read", "close"} => tree' = tree]_vars

(***************************************************************************)
(* Properties of renames and writes that interleave (SpecRace).            *)
(***************************************************************************)
\* C29: when two callers' renames and writes interleave between rename's
\* guards and its raw call, no raw rename succeeds onto a destination that
\* is stored at that moment, and two renames of different sources to the
\* same destination do not both succeed.
C29_NoLostContent ==
    /\ [][\A t \in Threads :
            (procs[t].pc = "raw" /\ procs'[t].pc = "done" /\ procs'[t].status = "ok"
                /\ procs[t].src # procs[t].dst)
                => ~tree[procs[t].dst].here]_vars
    /\ []((/\ \A t \in Threads : procs[t].pc = "done" /\ procs[t].op = "rename"
           /\ procs[1].dst = procs[2].dst
           /\ procs[1].src # procs[2].src)
            => \E t \in Threads : procs[t].status # "ok")

\* A successful write on MemFilesystem or SQLiteFilesystem leaves exactly the
\* written data at the File's path and every other entry as it was.
WriteFrame ==
    (Generic /\ res'.op = "write" /\ res'.status = "ok") =>
        /\ tree'[file.path] = Stored(res'.raw.v)
        /\ \A k \in DOMAIN tree : k # file.path => tree'[k] = tree[k]

\* A read through a later open returns what the last write to the path gave.
ReadsLastWrite ==
    (/\ Generic
     /\ res.op = "read" /\ res.status = "ok"
     /\ lastWrite # NoWrite
     /\ lastWrite.path = file.path) => res.value = lastWrite.content

\* C30: on MemFilesystem and SQLiteFilesystem a successful write replaces
\* the whole content stored at the path and touches no other path; after a
\* write of X and a write of Y through two opens, the path's one entry reads
\* as Y.
C30_WholeContent == []ReadsLastWrite /\ [][WriteFrame]_vars

\* A write has just replaced other content that was stored at the path.
C30_Witness ==
    /\ Generic
    /\ res.op = "write" /\ res.status = "ok" /\ res.msg = "replaced"
    /\ tree[file.path] = Stored(res.raw.v)

====
